---- MODULE Spec2Model ----
(***************************************************************************)
(* Model of the email-alias suite: the seeded name generator, the retrying *)
(* gateway wrapper, the creation and deletion loops, the secret            *)
(* synthesizer and the three-format export merger of                       *)
(* create-email-aliases.js, generate-passwords.js and                      *)
(* delete-email-aliases.js, and the classifier of the cleanup script.      *)
(*                                                                         *)
(* Strings the code splits, trims or searches are sequences of one-        *)
(* character strings; 32-bit words are pairs <<hi, lo>> of 16-bit halves.  *)
(***************************************************************************)
EXTENDS Integers, Sequences, FiniteSets, TLC

VARIABLES
  gen,       \* the generator instances: one generateAliasNames call each
  call,      \* the gateway call in progress: createEmailRoutingRule or
             \* deleteEmailRoutingRule with its retryCount
  files,     \* the three export files of the domain: <slug>.json, .txt, .toon
  before,    \* the export files as the current command found them
  run,       \* the command in progress and its local variables
  clock,     \* the commands started so far; new Date() reads it
  pure       \* the call of a pure function under study: its arguments and
             \* what it returned

exportVars == <<files, before, run, clock>>

\* ------------------------------------------------------------------------
\* Export files
\* ------------------------------------------------------------------------
\* the metadata object of the structured list; keys are the keys present
NoMetadata ==
  [keys |-> {}, domain |-> <<>>, updated_at |-> 0, count |-> 0, total_count |-> 0]

\* existsSync(jsonFile) is false
NoJson ==
  [exists |-> FALSE, parses |-> FALSE, isArray |-> FALSE, results |-> <<>>,
   metadata |-> NoMetadata]

\* a structured list on which JSON.parse throws
Unparseable == [NoJson EXCEPT !.exists = TRUE]

\* JSON.stringify(list) and JSON.stringify({metadata, results}), as JSON.parse
\* reads them back
JsonArray(list) ==
  [exists |-> TRUE, parses |-> TRUE, isArray |-> TRUE, results |-> list,
   metadata |-> NoMetadata]
JsonObject(results, metadata) ==
  [exists |-> TRUE, parses |-> TRUE, isArray |-> FALSE, results |-> results,
   metadata |-> metadata]

\* a text file: the flat list is a sequence of characters, the compact report
\* a sequence of lines
NoFile == [exists |-> FALSE, content |-> <<>>]
File(content) == [exists |-> TRUE, content |-> content]

NoFiles == [json |-> NoJson, txt |-> NoFile, toon |-> NoFile]

\* no record is under construction
NoResult == [status |-> "none"]

\* no command has run
IdleRun ==
  [cmd |-> "none", pc |-> "idle", bundle |-> "privacy-guardian", dryRun |-> FALSE,
   input |-> "txt", names |-> <<>>, i |-> 0, retryCount |-> 0, results |-> <<>>,
   successCount |-> 0, failureCount |-> 0, emails |-> <<>>, credentials |-> <<>>,
   deletable |-> <<>>, requests |-> <<>>, configured |-> TRUE, exited |-> FALSE,
   exitCode |-> 0, result |-> NoResult]

\* no pure function has been called
IdlePure == [fn |-> "none"]

ExportIdle ==
  /\ files = NoFiles
  /\ before = NoFiles
  /\ run = IdleRun
  /\ clock = 0
  /\ pure = IdlePure

Instances == {1, 2}

\* ------------------------------------------------------------------------
\* Bounds of the model
\* ------------------------------------------------------------------------
\* largest alias count a run asks for
MaxCount == 3
\* how many times a generator instance may be started
MaxStarts == 2

\* ------------------------------------------------------------------------
\* 32-bit arithmetic of the seeded generator (Math.imul, ^, |, >>>)
\* ------------------------------------------------------------------------
Half == 65536

RECURSIVE XorBits(_, _)
XorBits(a, b) ==
  IF a = 0 THEN b
  ELSE IF b = 0 THEN a
  ELSE (((a % 2) + (b % 2)) % 2) + 2 * XorBits(a \div 2, b \div 2)

RECURSIVE OrBits(_, _)
OrBits(a, b) ==
  IF a = 0 THEN b
  ELSE IF b = 0 THEN a
  ELSE (IF (a % 2) = 1 \/ (b % 2) = 1 THEN 1 ELSE 0) + 2 * OrBits(a \div 2, b \div 2)

\* the bit operations tabulated on 4-bit digits
XorDigit == [a \in 0..15 |-> [b \in 0..15 |-> XorBits(a, b)]]
OrDigit == [a \in 0..15 |-> [b \in 0..15 |-> OrBits(a, b)]]

\* a ^ b and a | b on 16-bit halves, digit by digit
Xor16(a, b) ==
  XorDigit[a % 16][b % 16]
  + 16 * XorDigit[(a \div 16) % 16][(b \div 16) % 16]
  + 256 * XorDigit[(a \div 256) % 16][(b \div 256) % 16]
  + 4096 * XorDigit[a \div 4096][b \div 4096]

Or16(a, b) ==
  OrDigit[a % 16][b % 16]
  + 16 * OrDigit[(a \div 16) % 16][(b \div 16) % 16]
  + 256 * OrDigit[(a \div 256) % 16][(b \div 256) % 16]
  + 4096 * OrDigit[a \div 4096][b \div 4096]

RECURSIVE Pow2(_)
Pow2(n) == IF n = 0 THEN 1 ELSE 2 * Pow2(n - 1)

\* x ^ y on 32-bit words
Xor32(x, y) == <<Xor16(x[1], y[1]), Xor16(x[2], y[2])>>

\* x | c for a constant c below 2^16
OrLow(x, c) == <<x[1], Or16(x[2], c)>>

\* x >>> n for 0 < n < 16
Shr32(x, n) ==
  <<x[1] \div Pow2(n), (x[2] \div Pow2(n)) + ((x[1] % Pow2(n)) * Pow2(16 - n))>>

\* (x + y) mod 2^32
Add32(x, y) ==
  LET lo == x[2] + y[2]
  IN  <<(x[1] + y[1] + (lo \div Half)) % Half, lo % Half>>

\* the 32-bit product <<hi, lo>> of two 16-bit halves, by 8-bit limbs
Mul16(a, b) ==
  LET x == (a % 256) * b
      y == (a \div 256) * b
      s == x + ((y % 256) * 256)
  IN  <<((y \div 256) + (s \div Half)) % Half, s % Half>>

\* Math.imul(x, y): the low 32 bits of the product
Imul(x, y) ==
  LET ll == Mul16(x[2], y[2])
  IN  <<(ll[1] + Mul16(x[1], y[2])[2] + Mul16(x[2], y[1])[2]) % Half, ll[2]>>

\* the 32-bit pattern of a seed given as a natural number
ToWord(n) == <<(n \div Half) % Half, n % Half>>

\* 0x6D2B79F5, the increment of the generator
SeedIncrement == <<27947, 31221>>

\* a generator that keeps its state in one module-level variable shared by
\* every instance, so that a new instance continues the stream of an earlier one
createSeededRandomShared(seed) ==
  LET begun == {i \in Instances : gen[i].status # "idle"}
  IN  IF begun = {} THEN ToWord(seed) ELSE gen[CHOOSE i \in begun : TRUE].rng

\* createSeededRandom(seed): the closure's captured state is the seed
createSeededRandom(seed) == ToWord(seed)

\* one call of the closure: the advanced state and the 32-bit numerator of
\* the returned fraction value / 2^32
random(state) ==
  LET s1 == Add32(state, SeedIncrement)
      t1 == Imul(Xor32(s1, Shr32(s1, 15)), OrLow(s1, 1))
      t2 == Xor32(t1, Add32(t1, Imul(Xor32(t1, Shr32(t1, 7)), OrLow(t1, 61))))
  IN  [state |-> s1, value |-> Xor32(t2, Shr32(t2, 14))]

\* Math.floor(random() * len) for the numerator u of random()
FloorScale(u, len) == ((u[1] * len) + ((u[2] * len) \div Half)) \div Half

\* WORD_BUNDLES: the six themed bundles; every token is a sequence of characters.
WORD_BUNDLES ==
  "privacy-guardian" :> [
      prefixes |-> <<
        <<"a","n","o","n","y","m","o","u","s">>, <<"c","i","p","h","e","r">>, <<"c","r","y","p","t">>,
        <<"g","h","o","s","t">>, <<"h","i","d","d","e","n">>, <<"i","n","c","o","g","n","i","t","o">>,
        <<"m","a","s","k","e","d">>, <<"p","h","a","n","t","o","m">>, <<"p","r","i","v","a","t","e">>,
        <<"s","e","c","r","e","t">>, <<"s","e","c","u","r","e">>, <<"s","h","a","d","o","w">>,
        <<"s","h","i","e","l","d">>, <<"s","i","l","e","n","t">>, <<"s","t","e","a","l","t","h">>,
        <<"v","a","u","l","t">>, <<"v","e","i","l","e","d">>, <<"w","h","i","s","p","e","r">>,
        <<"c","l","o","a","k">>, <<"e","n","i","g","m","a">>, <<"o","b","s","c","u","r","e">>,
        <<"c","o","v","e","r","t">>, <<"d","i","s","c","r","e","t","e">>, <<"g","u","a","r","d","e","d">>,
        <<"k","e","e","p","e","r">>, <<"s","e","n","t","i","n","e","l">>, <<"w","a","r","d","e","n">>,
        <<"a","e","g","i","s">>, <<"b","a","s","t","i","o","n">>, <<"f","o","r","t","r","e","s","s">>,
        <<"h","a","v","e","n">>, <<"r","e","f","u","g","e">>, <<"s","a","n","c","t","u","a","r","y">>,
        <<"g","u","a","r","d","i","a","n">>, <<"p","r","o","t","e","c","t","o","r">>,
        <<"d","e","f","e","n","d","e","r">>, <<"e","n","c","r","y","p","t","e","d">>,
        <<"l","o","c","k","e","d">>, <<"s","e","a","l","e","d">>, <<"s","h","i","e","l","d","e","d">>,
        <<"a","r","m","o","r","e","d">>, <<"f","o","r","t","i","f","i","e","d">>,
        <<"i","n","v","i","s","i","b","l","e">>, <<"u","n","s","e","e","n">>,
        <<"u","n","t","r","a","c","e","d">>, <<"u","n","t","r","a","c","e","a","b","l","e">>,
        <<"n","a","m","e","l","e","s","s">>, <<"f","a","c","e","l","e","s","s">>, <<"v","o","i","d">>,
        <<"d","a","r","k">>, <<"n","i","g","h","t">>, <<"t","w","i","l","i","g","h","t">>,
        <<"d","u","s","k">>, <<"s","h","a","d","e">>, <<"u","m","b","r","a">>, <<"e","c","l","i","p","s","e">>
      >>,
      suffixes |-> <<
        <<"v","a","u","l","t">>, <<"c","i","p","h","e","r">>, <<"l","o","c","k">>, <<"k","e","y">>,
        <<"g","a","t","e">>, <<"w","a","l","l">>, <<"s","h","i","e","l","d">>, <<"g","u","a","r","d">>,
        <<"k","e","e","p","e","r">>, <<"w","a","t","c","h","e","r">>, <<"s","e","n","t","i","n","e","l">>,
        <<"p","r","o","x","y">>, <<"m","a","s","k">>, <<"c","l","o","a","k">>, <<"v","e","i","l">>,
        <<"s","h","a","d","o","w">>, <<"g","h","o","s","t">>, <<"p","h","a","n","t","o","m">>,
        <<"s","p","i","r","i","t">>, <<"s","h","a","d","e">>, <<"w","r","a","i","t","h">>,
        <<"s","p","e","c","t","e","r">>, <<"n","o","d","e">>, <<"r","e","l","a","y">>,
        <<"t","u","n","n","e","l">>, <<"b","r","i","d","g","e">>, <<"p","o","r","t","a","l">>,
        <<"p","a","s","s","a","g","e">>, <<"p","a","t","h">>, <<"r","o","u","t","e">>,
        <<"c","h","a","n","n","e","l">>, <<"c","o","n","d","u","i","t">>, <<"l","i","n","k">>,
        <<"n","e","x","u","s">>, <<"h","u","b">>, <<"c","o","r","e">>, <<"f","o","r","t","r","e","s","s">>,
        <<"b","a","s","t","i","o","n">>, <<"c","i","t","a","d","e","l">>, <<"h","a","v","e","n">>,
        <<"r","e","f","u","g","e">>, <<"s","a","n","c","t","u","a","r","y">>, <<"a","s","y","l","u","m">>,
        <<"d","e","n">>, <<"l","a","i","r">>, <<"c","a","c","h","e">>, <<"s","t","a","s","h">>,
        <<"r","e","s","e","r","v","e">>, <<"a","r","c","h","i","v","e">>,
        <<"r","e","p","o","s","i","t","o","r","y">>, <<"s","e","n","t","r","y">>,
        <<"l","o","o","k","o","u","t">>, <<"o","b","s","e","r","v","e","r">>, <<"m","o","n","i","t","o","r">>,
        <<"s","c","a","n","n","e","r">>, <<"d","e","t","e","c","t","o","r">>
      >>]
  @@ "tech-wizard" :> [
      prefixes |-> <<
        <<"b","i","n","a","r","y">>, <<"q","u","a","n","t","u","m">>, <<"n","e","u","r","a","l">>,
        <<"c","y","b","e","r">>, <<"d","i","g","i","t","a","l">>, <<"v","i","r","t","u","a","l">>,
        <<"p","i","x","e","l">>, <<"b","y","t","e">>, <<"n","a","n","o">>, <<"m","i","c","r","o">>,
        <<"m","a","c","r","o">>, <<"m","e","t","a">>, <<"p","r","o","t","o">>, <<"c","o","r","e">>,
        <<"k","e","r","n","e","l">>, <<"d","a","e","m","o","n">>, <<"t","h","r","e","a","d">>,
        <<"a","s","y","n","c">>, <<"s","y","n","c">>, <<"p","a","r","a","l","l","e","l">>,
        <<"v","e","c","t","o","r">>, <<"m","a","t","r","i","x">>, <<"l","o","g","i","c">>,
        <<"b","o","o","l","e","a","n">>, <<"a","l","g","o","r","i","t","h","m">>, <<"r","e","g","e","x">>,
        <<"s","y","n","t","a","x">>, <<"c","o","m","p","i","l","e">>, <<"r","u","n","t","i","m","e">>,
        <<"s","t","a","c","k">>, <<"h","e","a","p">>, <<"c","a","c","h","e">>, <<"b","u","f","f","e","r">>,
        <<"s","t","r","e","a","m">>, <<"p","i","p","e","l","i","n","e">>, <<"p","a","c","k","e","t">>,
        <<"p","r","o","t","o","c","o","l">>, <<"n","e","t","w","o","r","k">>, <<"m","e","s","h">>,
        <<"g","r","i","d">>, <<"c","l","o","u","d">>, <<"e","d","g","e">>, <<"f","o","g">>,
        <<"d","a","t","a">>, <<"c","r","y","p","t","o">>, <<"h","a","s","h">>, <<"t","o","k","e","n">>,
        <<"s","e","s","s","i","o","n">>, <<"i","n","s","t","a","n","c","e">>, <<"m","o","d","u","l","e">>,
        <<"s","c","r","i","p","t">>, <<"l","a","m","b","d","a">>, <<"d","e","l","t","a">>,
        <<"a","l","p","h","a">>, <<"b","e","t","a">>, <<"g","a","m","m","a">>, <<"o","m","e","g","a">>
      >>,
      suffixes |-> <<
        <<"b","i","t">>, <<"b","y","t","e">>, <<"n","o","d","e">>, <<"c","o","r","e">>, <<"c","h","i","p">>,
        <<"c","i","r","c","u","i","t">>, <<"g","a","t","e">>, <<"p","o","r","t">>,
        <<"s","o","c","k","e","t">>, <<"t","h","r","e","a","d">>, <<"p","r","o","c","e","s","s">>,
        <<"d","a","e","m","o","n">>, <<"s","e","r","v","i","c","e">>, <<"w","o","r","k","e","r">>,
        <<"a","g","e","n","t">>, <<"b","o","t">>, <<"p","r","o","x","y">>, <<"s","e","r","v","e","r">>,
        <<"c","l","i","e","n","t">>, <<"h","o","s","t">>, <<"m","e","s","h">>, <<"g","r","i","d">>,
        <<"n","e","t","w","o","r","k">>, <<"c","l","u","s","t","e","r">>, <<"s","h","a","r","d">>,
        <<"p","a","r","t","i","t","i","o","n">>, <<"s","e","g","m","e","n","t">>, <<"b","l","o","c","k">>,
        <<"c","h","u","n","k">>, <<"p","a","c","k","e","t">>, <<"f","r","a","m","e">>,
        <<"p","a","y","l","o","a","d">>, <<"h","e","a","d","e","r">>, <<"f","o","o","t","e","r">>,
        <<"w","r","a","p","p","e","r">>, <<"c","o","n","t","a","i","n","e","r">>, <<"p","o","d">>,
        <<"i","n","s","t","a","n","c","e">>, <<"r","e","p","l","i","c","a">>, <<"m","i","r","r","o","r">>,
        <<"c","a","c","h","e">>, <<"b","u","f","f","e","r">>, <<"q","u","e","u","e">>,
        <<"s","t","a","c","k">>, <<"h","e","a","p">>, <<"t","r","e","e">>, <<"g","r","a","p","h">>,
        <<"a","r","r","a","y">>, <<"v","e","c","t","o","r">>, <<"m","a","t","r","i","x">>,
        <<"t","e","n","s","o","r">>, <<"s","c","a","l","a","r">>, <<"p","o","i","n","t","e","r">>,
        <<"r","e","f","e","r","e","n","c","e">>, <<"h","a","n","d","l","e">>,
        <<"d","e","s","c","r","i","p","t","o","r">>
      >>]
  @@ "nature-zen" :> [
      prefixes |-> <<
        <<"a","l","p","i","n","e">>, <<"a","m","b","e","r">>, <<"a","r","c","t","i","c">>,
        <<"a","u","t","u","m","n">>, <<"a","z","u","r","e">>, <<"b","r","e","e","z","e">>,
        <<"c","a","l","m">>, <<"c","a","s","c","a","d","e">>, <<"c","e","d","a","r">>,
        <<"c","l","o","u","d">>, <<"c","o","r","a","l">>, <<"c","r","y","s","t","a","l">>,
        <<"d","a","w","n">>, <<"d","u","s","k">>, <<"e","a","r","t","h">>, <<"e","m","e","r","a","l","d">>,
        <<"f","o","r","e","s","t">>, <<"f","r","o","s","t">>, <<"g","l","a","c","i","a","l">>,
        <<"g","o","l","d","e","n">>, <<"j","a","d","e">>, <<"l","u","n","a","r">>, <<"m","a","p","l","e">>,
        <<"m","a","r","i","n","e">>, <<"m","e","a","d","o","w">>, <<"m","i","s","t","y">>,
        <<"m","o","s","s">>, <<"m","o","u","n","t","a","i","n">>, <<"o","c","e","a","n">>,
        <<"o","l","i","v","e">>, <<"o","p","a","l">>, <<"p","a","c","i","f","i","c">>,
        <<"p","e","a","r","l">>, <<"p","e","b","b","l","e">>, <<"p","i","n","e">>,
        <<"q","u","a","r","t","z">>, <<"r","a","i","n">>, <<"r","i","v","e","r">>, <<"s","a","g","e">>,
        <<"s","a","n","d">>, <<"s","a","p","p","h","i","r","e">>, <<"s","k","y">>, <<"s","n","o","w">>,
        <<"s","o","l","a","r">>, <<"s","p","r","i","n","g">>, <<"s","t","e","l","l","a","r">>,
        <<"s","t","o","n","e">>, <<"s","u","m","m","e","r">>, <<"s","u","n","s","e","t">>,
        <<"t","h","u","n","d","e","r">>, <<"t","i","d","e">>, <<"t","i","m","b","e","r">>,
        <<"t","o","p","a","z">>, <<"v","a","l","l","e","y">>, <<"v","e","r","d","a","n","t">>,
        <<"w","i","l","d">>
      >>,
      suffixes |-> <<
        <<"b","a","y">>, <<"b","e","a","c","h">>, <<"b","r","o","o","k">>, <<"c","a","n","y","o","n">>,
        <<"c","a","v","e">>, <<"c","l","i","f","f">>, <<"c","l","o","u","d">>, <<"c","o","a","s","t">>,
        <<"c","o","v","e">>, <<"c","r","e","e","k">>, <<"d","e","l","t","a">>, <<"d","u","n","e">>,
        <<"f","a","l","l","s">>, <<"f","i","e","l","d">>, <<"f","j","o","r","d">>,
        <<"f","o","r","e","s","t">>, <<"g","a","r","d","e","n">>, <<"g","l","a","c","i","e","r">>,
        <<"g","r","o","v","e">>, <<"h","a","r","b","o","r">>, <<"h","a","v","e","n">>, <<"h","i","l","l">>,
        <<"h","o","l","l","o","w">>, <<"i","s","l","a","n","d">>, <<"l","a","k","e">>,
        <<"l","a","g","o","o","n">>, <<"m","a","r","s","h">>, <<"m","e","a","d","o","w">>,
        <<"m","e","s","a">>, <<"m","i","s","t">>, <<"m","o","u","n","t","a","i","n">>,
        <<"o","a","s","i","s">>, <<"o","c","e","a","n">>, <<"p","a","s","s">>, <<"p","a","t","h">>,
        <<"p","e","a","k">>, <<"p","i","n","e">>, <<"p","l","a","i","n">>, <<"p","o","n","d">>,
        <<"p","r","a","i","r","i","e">>, <<"r","e","e","f">>, <<"r","i","d","g","e">>,
        <<"r","i","v","e","r">>, <<"r","o","c","k">>, <<"s","h","o","r","e">>, <<"s","p","r","i","n","g">>,
        <<"s","t","o","n","e">>, <<"s","t","r","e","a","m">>, <<"s","u","m","m","i","t">>,
        <<"t","e","r","r","a","c","e">>, <<"t","r","a","i","l">>, <<"t","r","e","e">>,
        <<"v","a","l","l","e","y">>, <<"v","i","s","t","a">>, <<"w","a","v","e">>, <<"w","o","o","d">>
      >>]
  @@ "urban-legend" :> [
      prefixes |-> <<
        <<"a","p","e","x">>, <<"a","x","i","s">>, <<"b","o","l","d">>, <<"b","r","i","g","h","t">>,
        <<"c","h","r","o","m","e">>, <<"c","o","n","c","r","e","t","e">>, <<"c","o","r","e">>,
        <<"e","d","g","e">>, <<"e","l","e","c","t","r","i","c">>, <<"e","p","i","c">>,
        <<"f","l","a","s","h">>, <<"f","l","e","x">>, <<"f","u","s","i","o","n">>,
        <<"g","l","i","t","c","h">>, <<"g","l","o","w">>, <<"g","r","i","d">>, <<"h","i","g","h">>,
        <<"h","y","p","e","r">>, <<"i","n","s","t","a","n","t">>, <<"j","e","t">>,
        <<"k","i","n","e","t","i","c">>, <<"l","e","v","e","l">>, <<"m","e","t","r","o">>,
        <<"m","o","d","e","r","n">>, <<"n","e","o","n">>, <<"n","e","u","r","a","l">>,
        <<"n","e","x","u","s">>, <<"N","i","g","h","t">>, <<"n","o","v","a">>, <<"o","m","e","g","a">>,
        <<"p","e","a","k">>, <<"p","i","x","e","l">>, <<"p","r","i","m","e">>, <<"p","r","i","s","m">>,
        <<"p","u","l","s","e">>, <<"q","u","i","c","k">>, <<"r","a","p","i","d">>, <<"r","a","z","o","r">>,
        <<"r","e","f","l","e","x">>, <<"r","h","y","t","h","m">>, <<"r","u","s","h">>,
        <<"s","h","a","r","p">>, <<"s","i","g","n","a","l">>, <<"s","l","e","e","k">>,
        <<"s","o","n","i","c">>, <<"s","p","a","r","k">>, <<"s","p","e","e","d">>, <<"s","p","i","k","e">>,
        <<"s","u","r","g","e">>, <<"s","w","i","f","t">>, <<"s","y","n","c">>, <<"t","e","m","p","o">>,
        <<"t","i","t","a","n">>, <<"t","u","r","b","o">>, <<"u","l","t","r","a">>, <<"u","r","b","a","n">>
      >>,
      suffixes |-> <<
        <<"a","c","e">>, <<"a","r","c">>, <<"a","x","i","s">>, <<"b","e","a","t">>, <<"b","l","a","s","t">>,
        <<"b","l","a","z","e">>, <<"b","l","o","c","k">>, <<"b","o","l","t">>, <<"b","u","z","z">>,
        <<"c","a","f","e">>, <<"c","h","i","p">>, <<"c","i","t","y">>, <<"c","l","u","b">>,
        <<"d","a","s","h">>, <<"d","e","c","k">>, <<"d","i","s","t","r","i","c","t">>,
        <<"d","r","i","v","e">>, <<"d","r","o","p">>, <<"e","d","g","e">>, <<"f","l","a","s","h">>,
        <<"f","l","o","w">>, <<"f","l","u","x">>, <<"g","r","i","d">>, <<"h","u","b">>, <<"l","a","n","e">>,
        <<"l","e","v","e","l">>, <<"l","i","n","e">>, <<"l","i","n","k">>, <<"l","o","o","p">>,
        <<"m","a","l","l">>, <<"m","e","t","r","o">>, <<"m","o","d","e">>, <<"n","o","d","e">>,
        <<"p","a","c","e">>, <<"p","a","r","k">>, <<"p","h","a","s","e">>, <<"p","i","e","r">>,
        <<"p","l","a","z","a">>, <<"p","o","i","n","t">>, <<"p","u","l","s","e">>, <<"q","u","e","s","t">>,
        <<"r","a","i","l","s">>, <<"r","i","s","e">>, <<"r","o","u","t","e">>, <<"s","h","i","f","t">>,
        <<"s","q","u","a","r","e">>, <<"s","t","a","t","i","o","n">>, <<"s","t","r","e","e","t">>,
        <<"s","t","r","i","p">>, <<"s","y","n","c">>, <<"t","o","w","e","r">>, <<"t","r","a","c","k">>,
        <<"t","r","a","d","e">>, <<"t","r","a","n","s","i","t">>, <<"v","e","n","u","e">>, <<"z","o","n","e">>
      >>]
  @@ "cosmic-explorer" :> [
      prefixes |-> <<
        <<"a","s","t","r","a","l">>, <<"a","t","o","m","i","c">>, <<"a","u","r","o","r","a">>,
        <<"c","e","l","e","s","t","i","a","l">>, <<"c","o","s","m","i","c">>, <<"d","a","r","k">>,
        <<"d","i","s","t","a","n","t">>, <<"e","t","e","r","n","a","l">>, <<"g","a","l","a","c","t","i","c">>,
        <<"g","r","a","v","i","t","y">>, <<"i","n","f","i","n","i","t","e">>,
        <<"i","n","t","e","r","s","t","e","l","l","a","r">>, <<"l","i","g","h","t">>, <<"l","u","n","a","r">>,
        <<"m","e","t","e","o","r">>, <<"n","e","b","u","l","a">>, <<"n","e","u","t","r","o","n">>,
        <<"n","o","v","a">>, <<"o","r","b","i","t">>, <<"p","h","o","t","o","n">>,
        <<"p","l","a","s","m","a">>, <<"p","u","l","s","a","r">>, <<"q","u","a","n","t","u","m">>,
        <<"q","u","a","s","a","r">>, <<"r","a","d","i","a","n","t">>, <<"s","o","l","a","r">>,
        <<"s","p","a","c","e">>, <<"s","p","e","c","t","r","a","l">>, <<"s","t","a","r">>,
        <<"s","t","e","l","l","a","r">>, <<"s","u","p","e","r">>, <<"v","o","i","d">>, <<"w","a","r","p">>,
        <<"z","e","r","o">>, <<"a","n","d","r","o","m","e","d","a">>, <<"a","p","o","l","l","o">>,
        <<"a","r","i","e","s">>, <<"a","t","l","a","s">>, <<"a","u","r","o","r","a">>,
        <<"b","o","s","o","n">>, <<"c","o","m","e","t">>, <<"c","o","r","o","n","a">>,
        <<"c","o","s","m","o","s">>, <<"e","c","l","i","p","s","e">>, <<"e","v","e","n","t">>,
        <<"e","x","o">>, <<"f","u","s","i","o","n">>, <<"g","a","m","m","a">>, <<"h","e","l","i","o","s">>,
        <<"h","o","r","i","z","o","n">>, <<"i","o","n">>, <<"j","u","p","i","t","e","r">>,
        <<"k","e","p","l","e","r">>, <<"l","a","s","e","r">>, <<"l","u","n","a","r">>, <<"m","a","r","s">>,
        <<"m","e","r","c","u","r","y">>, <<"m","i","l","k","y">>, <<"o","r","b","i","t">>,
        <<"o","r","i","o","n">>, <<"p","h","o","e","n","i","x">>, <<"p","l","u","t","o">>,
        <<"p","o","l","a","r","i","s">>, <<"r","a","d","i","a","t","i","o","n">>, <<"r","e","d">>,
        <<"s","a","t","u","r","n">>, <<"s","i","r","i","u","s">>, <<"t","i","t","a","n">>,
        <<"u","r","a","n","u","s">>, <<"v","e","g","a">>
      >>,
      suffixes |-> <<
        <<"s","t","a","r">>, <<"n","o","v","a">>, <<"n","e","b","u","l","a">>, <<"g","a","l","a","x","y">>,
        <<"c","o","s","m","o","s">>, <<"c","o","m","e","t">>, <<"m","e","t","e","o","r">>,
        <<"o","r","b","i","t">>, <<"m","o","o","n">>, <<"p","l","a","n","e","t">>,
        <<"s","a","t","e","l","l","i","t","e">>, <<"a","s","t","e","r","o","i","d">>,
        <<"s","p","h","e","r","e">>, <<"v","o","i","d">>, <<"q","u","a","s","a","r">>,
        <<"p","u","l","s","a","r">>, <<"p","h","o","t","o","n">>, <<"p","r","o","t","o","n">>,
        <<"n","e","u","t","r","o","n">>, <<"e","l","e","c","t","r","o","n">>,
        <<"p","a","r","t","i","c","l","e">>, <<"w","a","v","e">>, <<"f","i","e","l","d">>,
        <<"f","o","r","c","e">>, <<"r","a","y">>, <<"b","e","a","m">>, <<"l","i","g","h","t">>,
        <<"d","a","r","k">>, <<"m","a","t","t","e","r">>, <<"e","n","e","r","g","y">>,
        <<"s","p","a","c","e">>, <<"t","i","m","e">>, <<"d","i","m","e","n","s","i","o","n">>,
        <<"p","o","r","t","a","l">>, <<"g","a","t","e">>, <<"w","o","r","m","h","o","l","e">>,
        <<"r","i","f","t">>, <<"f","l","u","x">>, <<"d","r","i","f","t">>, <<"s","h","i","f","t">>,
        <<"j","u","m","p">>, <<"l","e","a","p">>, <<"w","a","r","p">>, <<"d","r","i","v","e">>,
        <<"e","n","g","i","n","e">>, <<"r","e","a","c","t","o","r">>, <<"c","o","r","e">>,
        <<"s","t","a","t","i","o","n">>, <<"b","a","s","e">>, <<"o","u","t","p","o","s","t">>,
        <<"c","o","l","o","n","y">>, <<"s","h","i","p">>, <<"c","r","a","f","t">>,
        <<"v","e","s","s","e","l">>, <<"p","r","o","b","e">>, <<"e","x","p","l","o","r","e","r">>
      >>]
  @@ "mystic-shadow" :> [
      prefixes |-> <<
        <<"a","n","c","i","e","n","t">>, <<"a","r","c","a","n","e">>, <<"b","l","e","s","s","e","d">>,
        <<"c","e","l","e","s","t","i","a","l">>, <<"c","r","y","p","t","i","c">>, <<"c","u","r","s","e","d">>,
        <<"d","a","r","k">>, <<"d","i","v","i","n","e">>, <<"d","r","a","g","o","n">>,
        <<"d","r","e","a","m">>, <<"e","c","h","o">>, <<"e","l","d","e","r">>, <<"e","l","v","e","n">>,
        <<"e","n","c","h","a","n","t","e","d">>, <<"e","t","e","r","n","a","l">>, <<"f","a","b","l","e","d">>,
        <<"f","a","l","l","e","n">>, <<"f","o","r","b","i","d","d","e","n">>,
        <<"f","o","r","g","o","t","t","e","n">>, <<"f","r","o","s","t">>, <<"g","l","o","o","m">>,
        <<"g","r","i","m">>, <<"h","i","d","d","e","n">>, <<"h","o","l","y">>, <<"l","o","s","t">>,
        <<"l","u","n","a","r">>, <<"m","a","g","i","c">>, <<"m","i","d","n","i","g","h","t">>,
        <<"m","y","s","t","i","c">>, <<"m","y","t","h","i","c">>, <<"n","i","g","h","t">>,
        <<"o","b","s","i","d","i","a","n">>, <<"o","m","e","n">>, <<"o","r","a","c","l","e">>,
        <<"p","h","a","n","t","o","m">>, <<"p","r","i","m","a","l">>, <<"r","a","v","e","n">>,
        <<"r","u","n","e">>, <<"s","a","c","r","e","d">>, <<"s","h","a","d","o","w">>,
        <<"s","i","l","e","n","t">>, <<"s","i","l","v","e","r">>, <<"s","o","u","l">>,
        <<"s","p","e","c","t","r","a","l">>, <<"s","p","i","r","i","t">>, <<"s","t","a","r">>,
        <<"s","t","o","r","m">>, <<"t","w","i","l","i","g","h","t">>, <<"u","m","b","r","a","l">>,
        <<"v","o","i","d">>, <<"w","i","c","k","e","d">>, <<"w","i","l","d">>, <<"w","i","t","c","h">>,
        <<"w","o","l","f">>, <<"w","r","a","i","t","h">>
      >>,
      suffixes |-> <<
        <<"b","l","a","d","e">>, <<"b","l","o","o","d">>, <<"b","o","n","e">>, <<"b","o","o","k">>,
        <<"c","a","i","r","n">>, <<"c","h","a","l","i","c","e">>, <<"c","i","r","c","l","e">>,
        <<"c","o","v","e","n">>, <<"c","r","o","w","n">>, <<"c","r","y","s","t","a","l">>,
        <<"c","u","r","s","e">>, <<"d","a","w","n">>, <<"d","r","e","a","m">>, <<"d","u","s","k">>,
        <<"e","c","h","o">>, <<"e","m","b","e","r">>, <<"e","y","e">>, <<"f","l","a","m","e">>,
        <<"g","a","t","e">>, <<"g","a","z","e">>, <<"g","e","m">>, <<"g","l","y","p","h">>,
        <<"g","r","i","m","o","i","r","e">>, <<"g","r","o","v","e">>, <<"h","e","a","r","t">>,
        <<"k","e","e","p","e","r">>, <<"k","e","y">>, <<"m","a","r","k">>, <<"m","i","r","r","o","r">>,
        <<"m","o","o","n">>, <<"o","a","t","h">>, <<"o","r","a","c","l","e">>, <<"p","a","g","e">>,
        <<"p","e","n","d","a","n","t">>, <<"p","o","r","t","a","l">>, <<"p","r","o","p","h","e","c","y">>,
        <<"r","e","l","i","c">>, <<"r","i","t","e">>, <<"r","u","n","e">>, <<"s","c","r","o","l","l">>,
        <<"s","e","a","l">>, <<"s","e","e","r">>, <<"s","h","a","d","e">>, <<"s","i","g","i","l">>,
        <<"s","o","n","g">>, <<"s","o","u","l">>, <<"s","p","e","l","l">>, <<"s","p","i","r","i","t">>,
        <<"s","t","a","r">>, <<"s","t","o","n","e">>, <<"t","a","l","i","s","m","a","n">>,
        <<"t","o","m","e">>, <<"v","e","i","l">>, <<"v","e","s","s","e","l">>, <<"w","a","r","d">>,
        <<"w","h","i","s","p","e","r">>
      >>]

BundleKeys ==
  {"privacy-guardian", "tech-wizard", "nature-zen", "urban-legend", "cosmic-explorer",
   "mystic-shadow"}

\* ------------------------------------------------------------------------
\* Name generation
\* ------------------------------------------------------------------------
\* `${prefix}.${suffix}`
JoinName(prefix, suffix) == prefix \o <<".">> \o suffix

maxAttempts == 1000

\* the state of the generator after k more calls of random()
Advance(state, k) == Add32(state, Imul(ToWord(k), SeedIncrement))

\* the name the while loop draws in its iteration number `iteration` (from 0)
\* when it is entered with the generator state rng, and the state it leaves
DrawnName(rng, bundle, iteration) ==
  LET r1 == random(Advance(rng, 2 * iteration))
      r2 == random(r1.state)
      prefix == bundle.prefixes[FloorScale(r1.value, Len(bundle.prefixes)) + 1]
      suffix == bundle.suffixes[FloorScale(r2.value, Len(bundle.suffixes)) + 1]
  IN  [name |-> JoinName(prefix, suffix), rng |-> r2.state]

\* the name of iteration number `iteration` is not in usedNames
FreeAt(usedNames, rng, bundle, iteration) ==
  DrawnName(rng, bundle, iteration).name \notin usedNames

\* the number of the first iteration, among those the loop has left, whose
\* name is not in usedNames; -1 when there is none
FirstFree(usedNames, rng, bundle, left) ==
  IF \E k \in 0..(left - 1) : FreeAt(usedNames, rng, bundle, k)
  THEN CHOOSE k \in 0..(left - 1) :
         /\ FreeAt(usedNames, rng, bundle, k)
         /\ \A j \in 0..(k - 1) : ~FreeAt(usedNames, rng, bundle, j)
  ELSE -1

\* a loop that returns the name of its first iteration, used or not
UniqueNameLoopFirstDraw(usedNames, rng, bundle, attempts) ==
  LET d == DrawnName(rng, bundle, 0)
  IN  [ok |-> TRUE, name |-> d.name, usedNames |-> usedNames \cup {d.name},
       rng |-> d.rng, attempts |-> attempts]

\* generateUniqueName(usedNames, random, bundle): the whole while loop, entered
\* with `attempts` collisions counted: it returns the name of the first
\* iteration whose name is not in usedNames, and throws when there is none
\* before attempts reaches maxAttempts.
\* Returns the name (or the failure), the used-set and the generator state.
\* what the loop returns when its first free iteration is number k (-1: none
\* among the `left` iterations it has): the name, or the failure, with the
\* used-set, the generator state and the collisions counted
LoopResult(usedNames, rng, bundle, attempts, left, k) ==
  IF k >= 0
  THEN LET d == DrawnName(rng, bundle, k)
       IN  [ok |-> TRUE, name |-> d.name, usedNames |-> usedNames \cup {d.name},
            rng |-> d.rng, attempts |-> attempts + k]
  ELSE [ok |-> FALSE, name |-> <<>>, usedNames |-> usedNames,
        rng |-> Advance(rng, 2 * left), attempts |-> attempts + left]

UniqueNameLoop(usedNames, rng, bundle, attempts) ==
  LET left == IF attempts >= maxAttempts THEN 0 ELSE maxAttempts - attempts
  \* k takes the one value FirstFree gives
  IN  CHOOSE g \in {LoopResult(usedNames, rng, bundle, attempts, left, k) :
                      k \in {FirstFree(usedNames, rng, bundle, left)}} : TRUE

\* a generateUniqueName that returns its first draw without looking at the used-set
generateUniqueNameUnchecked(usedNames, rng, bundle) ==
  LET g == UniqueNameLoop({}, rng, bundle, 0)
  IN  [g EXCEPT !.usedNames = usedNames \cup {g.name}]

generateUniqueName(usedNames, rng, bundle) == UniqueNameLoop(usedNames, rng, bundle, 0)

\* generateAliasNames(count, seed, bundleKey): the for loop from index i on
RECURSIVE AliasNamesLoop(_, _, _, _, _)
AliasNamesLoop(count, names, usedNames, rng, bundle) ==
  IF Len(names) >= count THEN [ok |-> TRUE, names |-> names]
  \* g takes the one value generateUniqueName returns
  ELSE CHOOSE r \in {IF ~g.ok THEN [ok |-> FALSE, names |-> names]
                      ELSE AliasNamesLoop(count, Append(names, g.name), g.usedNames, g.rng, bundle) :
                      g \in {generateUniqueName(usedNames, rng, bundle)}} : TRUE

generateAliasNames(count, seed, bundleKey) ==
  AliasNamesLoop(count, <<>>, {}, createSeededRandom(seed), WORD_BUNDLES[bundleKey])

\* ------------------------------------------------------------------------
\* Inputs of the name generator
\* ------------------------------------------------------------------------
\* RANDOM_SEED values: the documented example seed and one whose first three
\* draws collide in every bundle
Seeds == {42, 143}
Counts == 1..MaxCount
\* the bundles the generator instances are run on
NameBundles == {"privacy-guardian", "cosmic-explorer", "mystic-shadow", "urban-legend"}
vars == <<gen, call, files, before, run, clock, pure>>

IdleGen ==
  [status |-> "idle", seed |-> 0, bundleKey |-> "privacy-guardian", count |-> 0,
   rng |-> <<0, 0>>, usedNames |-> {}, names |-> <<>>, collisions |-> 0, starts |-> 0]

\* generateAliasNames: entry (lines 465-468)
StartGenerate(i, count, seed, bundleKey) ==
  /\ gen[i].status \in {"idle", "done", "failed"}
  /\ gen[i].starts < MaxStarts
  /\ gen' = [gen EXCEPT ![i] =
       [status |-> "running", seed |-> seed, bundleKey |-> bundleKey, count |-> count,
        rng |-> createSeededRandom(seed), usedNames |-> {}, names |-> <<>>,
        collisions |-> 0, starts |-> gen[i].starts + 1]]
  /\ UNCHANGED <<call, exportVars, pure>>

\* generateAliasNames: one iteration of the for loop, a generateUniqueName call
StepGenerate(i) ==
  /\ gen[i].status = "running"
  /\ \E g \in {generateUniqueName(gen[i].usedNames, gen[i].rng,
                                  WORD_BUNDLES[gen[i].bundleKey])} :
     \E names \in {IF g.ok THEN Append(gen[i].names, g.name) ELSE gen[i].names} :
       gen' = [gen EXCEPT ![i] =
         [@ EXCEPT !.rng = g.rng, !.usedNames = g.usedNames, !.names = names,
                   !.collisions = @ + g.attempts,
                   !.status = IF ~g.ok THEN "failed"
                              ELSE IF Len(names) >= gen[i].count THEN "done"
                              ELSE "running"]]
  /\ UNCHANGED <<call, exportVars, pure>>

\* ------------------------------------------------------------------------
\* The retrying gateway wrapper
\* ------------------------------------------------------------------------
\* a value JavaScript leaves undefined or null
Undefined == "undefined"

\* CONFIG.maxRetries and CONFIG.baseRetryDelayMs
maxRetries == 3
baseRetryDelayMs == 1000

\* what one fetch can come back with: an HTTP response whose JSON body was
\* read (status, data.success, data.result.id, data.errors[0].message), or an
\* exception thrown by fetch or by response.json() (error.code, error.message)
HttpResponse(status, success, id, message) ==
  [kind |-> "http", status |-> status, success |-> success, id |-> id,
   message |-> message, code |-> Undefined]
FetchError(code, message) ==
  [kind |-> "error", status |-> 0, success |-> FALSE, id |-> Undefined,
   message |-> message, code |-> code]

ErrorMessages == {Undefined, "quota exceeded"}

TransientResponses ==
  {HttpResponse(st, FALSE, Undefined, m) : st \in {429, 500, 503}, m \in ErrorMessages}
  \cup {FetchError(c, "socket hang up") : c \in {"ECONNRESET", "ETIMEDOUT"}}

\* rejections that are not transient: a 4xx other than 429, a 2xx body without
\* success or without a rule id
FatalResponses ==
  {HttpResponse(st, FALSE, Undefined, m) : st \in {400, 403}, m \in ErrorMessages}
  \cup {HttpResponse(200, FALSE, Undefined, Undefined),
        HttpResponse(200, TRUE, Undefined, Undefined)}

\* an exception without a retryable code: fetch failed, or the body is not JSON
OtherErrors == {FetchError(Undefined, "Unexpected token < in JSON")}

SuccessResponses == {HttpResponse(200, TRUE, "rule-1", Undefined)}

Responses == SuccessResponses \cup TransientResponses \cup FatalResponses \cup OtherErrors

\* response.ok
IsOk(resp) == resp.status >= 200 /\ resp.status <= 299

\* a || b on strings
OrElse(a, b) == IF a = Undefined THEN b ELSE a

\* CONFIG.baseRetryDelayMs * Math.pow(2, retryCount)
RetryDelay(retryCount) == baseRetryDelayMs * Pow2(retryCount)

\* the test that ends the retries of a rate-limit or server-error response
RetriesExhaustedLate(retryCount) == retryCount > maxRetries
RetriesExhausted(retryCount) == retryCount >= maxRetries

GiveUp(retryCount) ==
  [outcome |-> "throw", delay |-> 0, ruleId |-> Undefined,
   error |-> <<"Rate limited">>]
Retry(retryCount) ==
  [outcome |-> "retry", delay |-> RetryDelay(retryCount), ruleId |-> Undefined,
   error |-> <<>>]
Throw(message) ==
  [outcome |-> "throw", delay |-> 0, ruleId |-> Undefined, error |-> message]
Return(ruleId) ==
  [outcome |-> "return", delay |-> 0, ruleId |-> ruleId, error |-> <<>>]

\* the catch block: an exception is retried only with a connection code
CatchBlock(resp, retryCount) ==
  IF retryCount < maxRetries /\ resp.code \in {"ECONNRESET", "ETIMEDOUT"}
  THEN Retry(retryCount)
  ELSE Throw(<<resp.message>>)

\* one pass through the body of createEmailRoutingRule for the answer resp
\* (an error thrown inside the try block has no code and is rethrown)
createEmailRoutingRule(resp, retryCount) ==
  IF resp.kind = "error" THEN CatchBlock(resp, retryCount)
  ELSE IF resp.status = 429 THEN
    IF RetriesExhausted(retryCount)
    THEN Throw(<<"Rate limited after ", maxRetries, " retries: ",
                 OrElse(resp.message, "Rate limited")>>)
    ELSE Retry(retryCount)
  ELSE IF resp.status >= 500 THEN
    IF RetriesExhausted(retryCount)
    THEN Throw(<<"Server error after ", maxRetries, " retries: ",
                 OrElse(resp.message, <<"HTTP ", resp.status>>)>>)
    ELSE Retry(retryCount)
  ELSE IF ~IsOk(resp) THEN
    Throw(<<"Cloudflare API Error: ", OrElse(resp.message, <<"HTTP ", resp.status>>)>>)
  ELSE IF ~resp.success \/ resp.id = Undefined THEN
    Throw(<<"Invalid API response structure">>)
  ELSE Return(resp.id)

\* one pass through the body of deleteEmailRoutingRule for the answer resp
deleteEmailRoutingRule(resp, retryCount) ==
  IF resp.kind = "error" THEN CatchBlock(resp, retryCount)
  ELSE IF resp.status = 429 THEN
    IF RetriesExhausted(retryCount)
    THEN Throw(<<"Rate limited after ", maxRetries, " retries">>)
    ELSE Retry(retryCount)
  ELSE IF resp.status >= 500 THEN
    IF RetriesExhausted(retryCount)
    THEN Throw(<<"Server error after ", maxRetries, " retries">>)
    ELSE Retry(retryCount)
  ELSE IF ~IsOk(resp) THEN
    Throw(<<OrElse(resp.message, <<"HTTP ", resp.status>>)>>)
  ELSE Return(Undefined)

Wrapper(op, resp, retryCount) ==
  IF op = "create" THEN createEmailRoutingRule(resp, retryCount)
  ELSE deleteEmailRoutingRule(resp, retryCount)

IdleCall ==
  [op |-> "create", phase |-> "idle", retryCount |-> 0, requests |-> 0,
   delays |-> <<>>, responses |-> <<>>, ruleId |-> Undefined, error |-> <<>>]

\* the caller invokes the wrapper with retryCount = 0
NewCall(op) == [IdleCall EXCEPT !.op = op, !.phase = "fetch"]

\* the wrapper sends its request, gets resp and handles it: it returns, throws,
\* or waits for the backoff delay and calls itself with retryCount + 1
AfterResponse(c, resp) ==
  LET h == Wrapper(c.op, resp, c.retryCount)
  IN  [c EXCEPT
        !.requests = @ + 1,
        !.responses = Append(@, resp),
        !.phase = CASE h.outcome = "retry" -> "fetch"
                    [] h.outcome = "return" -> "returned"
                    [] OTHER -> "thrown",
        !.retryCount = IF h.outcome = "retry" THEN @ + 1 ELSE @,
        !.delays = IF h.outcome = "retry" THEN Append(@, h.delay) ELSE @,
        !.ruleId = h.ruleId,
        !.error = h.error]

BeginCall(op) ==
  /\ call.phase \in {"idle", "returned", "thrown"}
  /\ call' = NewCall(op)
  /\ UNCHANGED <<gen, exportVars, pure>>

Respond(resp) ==
  /\ call.phase = "fetch"
  /\ call' = AfterResponse(call, resp)
  /\ UNCHANGED <<gen, exportVars, pure>>

InitRetry ==
  /\ gen = [i \in Instances |-> IdleGen]
  /\ call = IdleCall
  /\ ExportIdle

NextRetry ==
  \/ \E op \in {"create", "delete"} : BeginCall(op)
  \/ \E resp \in Responses : Respond(resp)

SpecRetry == InitRetry /\ [][NextRetry]_vars

\* ------------------------------------------------------------------------
\* Strings: sequences of characters
\* ------------------------------------------------------------------------
\* str.indexOf(sep) + 1, or 0 when sep is not in str
IndexOf(str, sep) ==
  IF \E i \in 1..Len(str) : str[i] = sep
  THEN CHOOSE i \in 1..Len(str) : str[i] = sep /\ \A j \in 1..(i - 1) : str[j] # sep
  ELSE 0

\* str.split(sep) for a one-character separator
RECURSIVE Split(_, _)
Split(str, sep) ==
  LET i == IndexOf(str, sep)
  IN  IF i = 0 THEN <<str>>
      ELSE <<SubSeq(str, 1, i - 1)>> \o Split(SubSeq(str, i + 1, Len(str)), sep)

\* str.includes(ch)
Includes(str, ch) == \E i \in 1..Len(str) : str[i] = ch

Whitespace == {" ", "\n", "\t", "\r"}

RECURSIVE TrimStart(_)
TrimStart(str) ==
  IF str # <<>> /\ str[1] \in Whitespace THEN TrimStart(Tail(str)) ELSE str

RECURSIVE TrimEnd(_)
TrimEnd(str) ==
  IF str # <<>> /\ str[Len(str)] \in Whitespace
  THEN TrimEnd(SubSeq(str, 1, Len(str) - 1)) ELSE str

\* str.trim()
Trim(str) == TrimEnd(TrimStart(str))

\* parts.join(sep)
RECURSIVE Join(_, _)
Join(parts, sep) ==
  IF parts = <<>> THEN <<>>
  ELSE IF Len(parts) = 1 THEN parts[1]
  ELSE parts[1] \o sep \o Join(Tail(parts), sep)

\* str.replace(/from/g, to) for single characters
ReplaceAll(str, from, to) == [i \in 1..Len(str) |-> IF str[i] = from THEN to ELSE str[i]]

\* str.endsWith('\n')
EndsWithNewline(str) == str # <<>> /\ str[Len(str)] = "\n"

\* ------------------------------------------------------------------------
\* Secret generation
\* ------------------------------------------------------------------------
CHARSET ==
  [lowercase |-> <<"a","b","c","d","e","f","g","h","i","j","k","l","m","n","o","p","q","r","s",
                   "t","u","v","w","x","y","z">>,
   uppercase |-> <<"A","B","C","D","E","F","G","H","I","J","K","L","M","N","O","P","Q","R","S",
                   "T","U","V","W","X","Y","Z">>,
   numbers |-> <<"0","1","2","3","4","5","6","7","8","9">>,
   special |-> <<"!","@","#","$","%","^","&","*","(",")","-","_","=","+","[","]","{","}","|",
                 ";",":",",",".","<",">","?">>]

ALL_CHARS == CHARSET.lowercase \o CHARSET.uppercase \o CHARSET.numbers \o CHARSET.special

\* charset[randomBytes(1)[0] % charset.length]
getRandomChar(charset, byte) == charset[(byte % Len(charset)) + 1]

\* the characters pushed before the shuffle, for the random bytes read in order
PasswordCharsNoSymbol(bytes, length) ==
  [i \in 1..length |->
     CASE i = 1 -> getRandomChar(CHARSET.lowercase, bytes[1])
       [] i = 2 -> getRandomChar(CHARSET.uppercase, bytes[2])
       [] i = 3 -> getRandomChar(CHARSET.numbers, bytes[3])
       [] OTHER -> getRandomChar(ALL_CHARS, bytes[i])]
PasswordChars(bytes, length) ==
  [i \in 1..length |->
     CASE i = 1 -> getRandomChar(CHARSET.lowercase, bytes[1])
       [] i = 2 -> getRandomChar(CHARSET.uppercase, bytes[2])
       [] i = 3 -> getRandomChar(CHARSET.numbers, bytes[3])
       [] i = 4 -> getRandomChar(CHARSET.special, bytes[4])
       [] OTHER -> getRandomChar(ALL_CHARS, bytes[i])]

\* array.sort(() => 0.5 - Math.random()): the elements in some order, given
\* as the permutation order (order[i] is the index that ends up at place i)
SortRandomly(array, order) == [i \in 1..Len(array) |-> array[order[i]]]

\* generateSecurePassword of create-email-aliases.js, for one draw of random
\* bytes and one outcome of the sort
generateSecurePassword(draw, length) ==
  SortRandomly(PasswordChars(draw.bytes, length), draw.order)

\* shuffleArray: the Fisher-Yates loop from index i down, swapping with
\* randomBytes(1)[0] % (i + 1)
RECURSIVE ShuffleFrom(_, _, _)
ShuffleFrom(array, swaps, i) ==
  IF i <= 1 THEN array
  ELSE LET j == (swaps[Len(array) - i + 1] % i) + 1
           swapped == [array EXCEPT ![i] = array[j], ![j] = array[i]]
       IN  ShuffleFrom(swapped, swaps, i - 1)

shuffleArray(array, swaps) == ShuffleFrom(array, swaps, Len(array))

\* generateSecurePassword of generate-passwords.js
generateSecurePasswordGp(draw, length) ==
  shuffleArray(PasswordChars(draw.bytes, length), draw.swaps)

passwordLength == 12

\* the draws of random bytes the secrets are generated from: all-zero bytes
\* whose characters the sort reverses, and bytes that select ':' twice
PasswordDraws ==
  {[bytes |-> <<0, 0, 0, 0, 0, 0, 0, 0, 0, 0, 0, 0>>,
    order |-> <<12, 11, 10, 9, 8, 7, 6, 5, 4, 3, 2, 1>>,
    swaps |-> <<0, 0, 0, 0, 0, 0, 0, 0, 0, 0, 0>>],
   [bytes |-> <<1, 1, 1, 20, 82, 1, 1, 1, 1, 1, 1, 1>>,
    order |-> <<1, 2, 3, 4, 5, 6, 7, 8, 9, 10, 11, 12>>,
    swaps |-> <<11, 10, 9, 8, 7, 6, 5, 4, 3, 2, 1>>]}

\* ------------------------------------------------------------------------
\* Secrets for a batch of addresses
\* ------------------------------------------------------------------------
\* how many draws beyond one per address a batch of secrets may take
MaxRedraws == 1

\* the sequences of draws a batch of n secrets is generated from
DrawSeqs(n) == [1..(n + MaxRedraws) -> PasswordDraws]

\* the do-while of generateUniquePasswords: the place of the first draw whose
\* secret is not in use, 0 when every draw collides
FirstUnused(draws, used) ==
  LET unused == {j \in 1..Len(draws) :
                   generateSecurePassword(draws[j], passwordLength) \notin used}
  IN  IF unused = {} THEN 0 ELSE CHOOSE j \in unused : \A l \in unused : j <= l

\* generateUniquePasswords of create-email-aliases.js: the for loop with its
\* do-while, reading the draws in order; done is FALSE when the draws end
\* before the loop does
RECURSIVE UniquePasswordsLoop(_, _, _, _)
UniquePasswordsLoop(aliases, draws, credentials, used) ==
  IF aliases = <<>> THEN [done |-> TRUE, credentials |-> credentials]
  ELSE LET j == FirstUnused(draws, used)
       IN  IF j = 0 THEN [done |-> FALSE, credentials |-> credentials]
           ELSE LET password == generateSecurePassword(draws[j], passwordLength)
                IN  UniquePasswordsLoop(Tail(aliases), SubSeq(draws, j + 1, Len(draws)),
                      Append(credentials, [email |-> Head(aliases), password |-> password]),
                      used \cup {password})

generateUniquePasswordsUnchecked(aliases, draws) ==
  [done |-> Len(draws) >= Len(aliases),
   credentials |-> [i \in 1..Len(aliases) |->
                      [email |-> aliases[i],
                       password |-> generateSecurePassword(draws[i], passwordLength)]]]
generateUniquePasswords(aliases, draws) == UniquePasswordsLoop(aliases, draws, <<>>, {})

\* the attempt bound of generateUniquePasswords in generate-passwords.js
maxPasswordAttempts == 100

\* the do-while of generateUniquePasswords in generate-passwords.js: the
\* place of the first draw whose secret is not in use, 0 when every draw
\* collides
FirstUnusedGp(draws, passwords) ==
  LET unused == {j \in 1..Len(draws) :
                   generateSecurePasswordGp(draws[j], passwordLength) \notin passwords}
  IN  IF unused = {} THEN 0 ELSE CHOOSE j \in unused : \A l \in unused : j <= l

\* generateUniquePasswords of generate-passwords.js: each draw counts an
\* attempt, and the attempt that reaches the bound throws, whatever it drew
RECURSIVE UniquePasswordsLoopGp(_, _, _, _)
UniquePasswordsLoopGp(emails, draws, credentials, passwords) ==
  IF emails = <<>>
  THEN [done |-> TRUE, thrown |-> FALSE, credentials |-> credentials]
  ELSE LET j == FirstUnusedGp(draws, passwords)
       IN  IF Len(draws) >= maxPasswordAttempts /\ (j = 0 \/ j >= maxPasswordAttempts)
           THEN [done |-> TRUE, thrown |-> TRUE, credentials |-> credentials]
           ELSE IF j = 0
           THEN [done |-> FALSE, thrown |-> FALSE, credentials |-> credentials]
           ELSE LET password == generateSecurePasswordGp(draws[j], passwordLength)
                IN  UniquePasswordsLoopGp(Tail(emails), SubSeq(draws, j + 1, Len(draws)),
                      Append(credentials, [email |-> Head(emails), password |-> password]),
                      passwords \cup {password})

generateUniquePasswordsGp(emails, draws) ==
  UniquePasswordsLoopGp(emails, draws, <<>>, {})

\* ------------------------------------------------------------------------
\* The export merger
\* ------------------------------------------------------------------------
\* CONFIG.emailDomain and the slug the three files are named after
emailDomain == <<"x", ".", "i", "o">>
domainSlug == ReplaceAll(emailDomain, ".", "-")

\* a field of a results entry that is not there
NoPassword == <<>>
NoError == <<>>

\* an insertion-ordered Map: a sequence of entries with distinct keys
MapHas(map, key) == \E i \in 1..Len(map) : map[i].key = key
MapGet(map, key) == map[CHOOSE i \in 1..Len(map) : map[i].key = key].value
MapSet(map, key, value) ==
  IF MapHas(map, key)
  THEN [i \in 1..Len(map) |->
          IF map[i].key = key THEN [key |-> key, value |-> value] ELSE map[i]]
  ELSE Append(map, [key |-> key, value |-> value])
MapDelete(map, key) == SelectSeq(map, LAMBDA entry : entry.key # key)

\* new Map(credentials.map(c => [c.email, c.password])), and
\* credentials.forEach(c => map.set(c.email, c.password)) on a given map
RECURSIVE SetCredentials(_, _)
SetCredentials(map, credentials) ==
  IF credentials = <<>> THEN map
  ELSE SetCredentials(MapSet(map, Head(credentials).email, Head(credentials).password),
                      Tail(credentials))

\* content.split('\n').map(l => l.trim()).filter(l => l.includes('@'))
TxtLines(content) ==
  LET split == Split(content, "\n")
      trimmed == [i \in 1..Len(split) |-> Trim(split[i])]
  IN  SelectSeq(trimmed, LAMBDA line : Includes(line, "@"))

\* const [email, pwd] = line.split(':'); txtMap.set(email, pwd || '')
RECURSIVE SetLines(_, _)
SetLines(map, lines) ==
  IF lines = <<>> THEN map
  ELSE LET parts == Split(Head(lines), ":")
           email == parts[1]
           pwd == IF Len(parts) >= 2 THEN parts[2] ELSE <<>>
       IN  SetLines(MapSet(map, email, pwd), Tail(lines))

\* `${email}:${pwd}`
CredentialLine(email, pwd) == email \o <<":">> \o pwd

\* updateFilesWithPasswords, flat list: the lines of the file keyed by the
\* text before the first ':', the credentials set on top, the file rewritten
UpdateTxt(txt, credentials) ==
  LET allTxtLines == IF txt.exists THEN TxtLines(txt.content) ELSE <<>>
      txtMap == SetCredentials(SetLines(<<>>, allTxtLines), credentials)
      lines == [i \in 1..Len(txtMap) |-> CredentialLine(txtMap[i].key, txtMap[i].value)]
  IN  File(Join(lines, <<"\n">>) \o <<"\n">>)

\* masterList.map(item => ...): the first entry of an address takes the secret
\* and removes it from credMap
RECURSIVE AttachPasswords(_, _)
AttachPasswords(masterList, credMap) ==
  IF masterList = <<>> THEN <<>>
  ELSE LET item == Head(masterList)
       IN  IF MapHas(credMap, item.alias)
           THEN <<[item EXCEPT !.password = MapGet(credMap, item.alias)]>>
                \o AttachPasswords(Tail(masterList), MapDelete(credMap, item.alias))
           ELSE <<item>> \o AttachPasswords(Tail(masterList), credMap)

\* updateFilesWithPasswords, structured list: a file that does not parse is
\* read as the empty array
UpdateJson(json, credentials, now) ==
  IF ~json.exists THEN json
  ELSE LET masterList == IF json.parses THEN json.results ELSE <<>>
           updated == AttachPasswords(masterList, SetCredentials(<<>>, credentials))
       IN  JsonObject(updated,
             [keys |-> {"domain", "updated_at", "count", "secure"},
              domain |-> ReplaceAll(domainSlug, "-", "."),
              updated_at |-> now,
              count |-> Len(updated),
              total_count |-> 0])

\* a line of the compact report is the sequence of its pieces
BlankLine == <<>>

\* text appended to a report: the first line of the text continues the last
\* line of the file
AppendText(content, text) ==
  IF content = <<>> THEN text
  ELSE SubSeq(content, 1, Len(content) - 1)
       \o <<content[Len(content)] \o Head(text)>> \o Tail(text)

\* updateFilesWithPasswords, compact report: a credentials_update block is
\* appended when the file exists
UpdateToon(toon, credentials, now) ==
  IF ~toon.exists THEN toon
  ELSE LET rows == [i \in 1..Len(credentials) |->
                      <<"  ", credentials[i].email, " : ", credentials[i].password>>]
           newBlock == <<BlankLine, BlankLine, <<"credentials_update[", now, "]:">>>>
                       \o (IF rows = <<>> THEN <<BlankLine>> ELSE rows)
       IN  File(AppendText(toon.content, newBlock))

updateFilesWithPasswords(f, credentials, now) ==
  [json |-> UpdateJson(f.json, credentials, now),
   txt |-> UpdateTxt(f.txt, credentials),
   toon |-> UpdateToon(f.toon, credentials, now)]

\* runCreationFlow, structured list: the batch is concatenated to the entries
\* already there; a prior file that does not parse makes JSON.parse throw,
\* the catch block reports it and nothing is written
ExportJson(json, results, now) ==
  IF ~json.exists THEN JsonArray(results)
  ELSE IF ~json.parses THEN json
  ELSE IF json.isArray THEN JsonArray(json.results \o results)
  ELSE JsonObject(json.results \o results,
         [json.metadata EXCEPT !.keys = @ \cup {"updated_at"}, !.updated_at = now])

\* results.filter(r => r.status === 'success').map(r => r.alias)
SuccessfulAliases(results) ==
  LET successful == SelectSeq(results, LAMBDA r : r.status = "success")
  IN  [i \in 1..Len(successful) |-> successful[i].alias]

\* an export of the flat list that writes the batch over the file
ExportTxtOverwrite(txt, results) ==
  File(Join(SuccessfulAliases(results), <<"\n">>) \o <<"\n">>)

\* runCreationFlow, flat list: the successful addresses are appended, after a
\* newline when the file does not end with one
ExportTxt(txt, results) ==
  LET contentToWrite == Join(SuccessfulAliases(results), <<"\n">>) \o <<"\n">>
      prefix == IF EndsWithNewline(txt.content) THEN <<>> ELSE <<"\n">>
  IN  IF txt.exists THEN File(txt.content \o prefix \o contentToWrite)
      ELSE File(contentToWrite)

\* selectedBundle.name
BundleName(bundleKey) == <<"WORD_BUNDLES", bundleKey, "name">>

\* CONFIG.destinationEmail
destinationEmail == <<"m", "e", "@", "y", ".", "i", "o">>

\* ((successCount / totalCount) * 100).toFixed(2), in hundredths of a percent
SuccessRate(successCount, totalCount) ==
  ((2 * successCount * 10000) + totalCount) \div (2 * totalCount)

\* generateToon(results, metadata): the lines of the report
generateToon(results, metadata) ==
  LET successful == SelectSeq(results, LAMBDA r : r.status = "success")
      failed == SelectSeq(results, LAMBDA r : r.status = "failed")
      FailedLines(r) ==
        <<<<"  - alias: ", r.alias>>,
          <<"    error: ", IF r.error = NoError THEN <<"Unknown error">> ELSE r.error>>,
          <<"    created_at: ", r.createdAt>>>>
      failedLines == [k \in 1..(3 * Len(failed)) |->
                        FailedLines(failed[((k - 1) \div 3) + 1])[((k - 1) % 3) + 1]]
  IN  <<<<"# Email Aliases Export (TOON Format)">>,
        <<"# Generated: ", metadata.timestamp>>,
        BlankLine,
        <<"metadata:">>,
        <<"  bundle_id: ", metadata.bundle>>,
        <<"  bundle_name: ", metadata.bundleName>>,
        <<"  domain: ", metadata.domain>>,
        <<"  destination: ", metadata.destination>>,
        <<"  total_count: ", metadata.totalCount>>,
        <<"  success_count: ", metadata.successCount>>,
        <<"  failure_count: ", metadata.failureCount>>,
        BlankLine>>
      \o (IF Len(successful) > 0
          THEN <<<<"successful_aliases[", Len(successful), "]{alias,rule_id,created_at}:">>>>
               \o [i \in 1..Len(successful) |->
                     <<"  ", successful[i].alias, ",", successful[i].ruleId, ",",
                       successful[i].createdAt>>]
               \o <<BlankLine>>
          ELSE <<>>)
      \o (IF Len(failed) > 0
          THEN <<<<"failed_aliases[", Len(failed), "]:">>>> \o failedLines \o <<BlankLine>>
          ELSE <<>>)
      \o <<<<"summary:">>,
           <<"  success_rate: ", SuccessRate(metadata.successCount, metadata.totalCount), "%">>,
           <<"  total_aliases: ", metadata.totalCount>>,
           <<"  bundle_used: ", metadata.bundleName>>>>

\* runCreationFlow, compact report: appended after two newlines, or written
ExportToon(toon, r, now) ==
  LET toonContent ==
        generateToon(r.results,
          [bundle |-> r.bundle, bundleName |-> BundleName(r.bundle),
           domain |-> emailDomain, destination |-> destinationEmail,
           totalCount |-> Len(r.results), successCount |-> r.successCount,
           failureCount |-> r.failureCount, timestamp |-> now])
  IN  IF toon.exists
      THEN File(AppendText(toon.content, <<BlankLine, BlankLine>> \o toonContent))
      ELSE File(toonContent)

\* generateToonFormat(credentials, metadata) of generate-passwords.js
generateToonFormat(credentials, metadata) ==
  <<<<"# Email Alias Credentials (TOON Format)">>,
    <<"# Generated: ", metadata.timestamp>>,
    BlankLine,
    <<"metadata:">>,
    <<"  total_credentials: ", Len(credentials)>>,
    <<"  password_length: 12">>,
    <<"  charset: lowercase,uppercase,numbers,special">>,
    <<"  source_file: ", metadata.sourceFile>>,
    BlankLine,
    <<"credentials[", Len(credentials), "]{email,password}:">>>>
  \o [i \in 1..Len(credentials) |->
        <<"  ", credentials[i].email, ",", credentials[i].password>>]
  \o <<BlankLine,
       <<"security:">>,
       <<"  password_strength: Strong (12 chars, mixed case, numbers, symbols)">>,
       <<"  uniqueness: Guaranteed unique passwords">>,
       <<"  generation_method: Cryptographically secure (crypto.randomBytes)">>>>

\* str.replace('-', '.'): the first occurrence only
RECURSIVE ReplaceFirst(_, _, _)
ReplaceFirst(str, from, to) ==
  IF str = <<>> THEN <<>>
  ELSE IF Head(str) = from THEN <<to>> \o Tail(str)
  ELSE <<Head(str)>> \o ReplaceFirst(Tail(str), from, to)

\* credMap.get(entry.alias || entry.email) || entry.password; a Map built
\* from pairs keeps the last value of a key
GpPassword(entry, credMap) ==
  IF MapHas(credMap, entry.alias) /\ MapGet(credMap, entry.alias) # <<>>
  THEN MapGet(credMap, entry.alias)
  ELSE entry.password

\* generate-passwords.js main, steps 3 to 5: the flat list and the compact
\* report are written anew, the structured list is updated when it parses
GpWriteFiles(f, credentials, input, now) ==
  LET txtContent ==
        Join([i \in 1..Len(credentials) |->
                CredentialLine(credentials[i].email, credentials[i].password)], <<"\n">>)
        \o <<"\n">>
      credMap == SetCredentials(<<>>, credentials)
      updatedAliases == [i \in 1..Len(f.json.results) |->
                           [f.json.results[i] EXCEPT
                              !.password = GpPassword(f.json.results[i], credMap)]]
      finalJson ==
        JsonObject(updatedAliases,
          [keys |-> {"domain", "updated_at", "total_count", "security"},
           domain |-> ReplaceFirst(domainSlug, "-", "."),
           updated_at |-> now,
           count |-> 0,
           total_count |-> Len(credentials)])
      toonContent ==
        generateToonFormat(credentials, [timestamp |-> now, sourceFile |-> input])
  IN  [txt |-> File(txtContent),
       json |-> IF f.json.exists /\ f.json.parses THEN finalJson ELSE f.json,
       toon |-> File(toonContent)]

\* ------------------------------------------------------------------------
\* The commands that write the export files
\* ------------------------------------------------------------------------
\* how many commands are run on the domain
MaxCommands == 2
\* largest alias count of a create run on the export files
MaxBatch == 2

\* the gateway's answers to the create runs: the rule is created, or rejected
ExportResponses ==
  {HttpResponse(200, TRUE, "rule-1", Undefined),
   HttpResponse(403, FALSE, Undefined, "quota exceeded")}

ExportBundles == {"privacy-guardian"}

\* ALIAS_COUNT and RANDOM_SEED of the create runs: every count with the
\* documented seed, and one alias with the other seed
ExportInputs ==
  {cfg \in [count : 1..MaxBatch, seed : Seeds] : cfg.seed = 42 \/ cfg.count = 1}

\* the name of the input file of generate-passwords.js
InputFile(input) ==
  domainSlug \o (IF input = "json" THEN <<".", "j", "s", "o", "n">>
                 ELSE <<".", "t", "x", "t">>)

\* a command starts: it finds the files as they are, and the clock ticks
Begin ==
  /\ run.pc = "idle"
  /\ clock < MaxCommands
  /\ clock' = clock + 1
  /\ before' = files

\* one fetch of the wrapper: the request sent for item i of the loop, and the
\* status the gateway answered it with
Request(method, target, item, resp) ==
  [method |-> method, target |-> target, item |-> item, status |-> resp.status]

\* the condition of the creation loop, asked after item i of n
LoopContinuesShort(i, n) == i < n - 1
LoopContinues(i, n) == i < n

\* runCreationFlow after the names are generated: a dry run lists them and
\* returns, otherwise the creation loop starts
AfterNamesNoDryRun(ok, dryRun) == IF ok THEN "request" ELSE "idle"
AfterNames(ok, dryRun) == IF ok /\ ~dryRun THEN "request" ELSE "idle"

\* the record the creation loop makes before the create call of the alias
NewResult(name, createdAt, bundleKey) ==
  [alias |-> name \o <<"@">> \o emailDomain,
   ruleId |-> Undefined,
   createdAt |-> createdAt,
   status |-> "pending",
   bundle |-> bundleKey,
   error |-> NoError,
   password |-> NoPassword]

\* the try and the catch around the create call: the call returned or threw
SettledAsSuccess(result, h) == [result EXCEPT !.ruleId = h.ruleId, !.status = "success"]
Settled(result, h) ==
  IF h.outcome = "return"
  THEN [result EXCEPT !.ruleId = h.ruleId, !.status = "success"]
  ELSE [result EXCEPT !.status = "failed", !.error = h.error]

\* runCreationFlow up to the first gateway request: the names are generated
\* and the record of the first alias is made; when generateAliasNames throws,
\* main().catch exits with status 1
StartCreate(bundleKey, count, seed, dryRun) ==
  /\ Begin
  /\ \E g \in {generateAliasNames(count, seed, bundleKey)} :
       run' = [IdleRun EXCEPT
                 !.cmd = "create", !.bundle = bundleKey, !.dryRun = dryRun,
                 !.names = g.names, !.i = 1,
                 !.pc = AfterNames(g.ok, dryRun),
                 !.result = IF AfterNames(g.ok, dryRun) = "request"
                            THEN NewResult(g.names[1], clock', bundleKey)
                            ELSE NoResult,
                 !.exited = ~g.ok,
                 !.exitCode = IF g.ok THEN 0 ELSE 1]
  /\ UNCHANGED <<files, gen, call, pure>>

\* runCreationFlow, the creation loop: the gateway answers the request of
\* alias i; the wrapper retries, or the result is pushed and the loop goes on
CreateRespond(resp) ==
  /\ run.pc = "request"
  /\ \E h \in {createEmailRoutingRule(resp, run.retryCount)} :
     \E aliasEmail \in {run.result.alias} :
     \E result \in {Settled(run.result, h)} :
       run' = IF h.outcome = "retry"
              THEN [run EXCEPT !.retryCount = @ + 1,
                               !.requests = Append(@, Request("POST", aliasEmail, run.i, resp))]
              ELSE [run EXCEPT
                      !.requests = Append(@, Request("POST", aliasEmail, run.i, resp)),
                      !.results = Append(@, result),
                      !.successCount = IF h.outcome = "return" THEN @ + 1 ELSE @,
                      !.failureCount = IF h.outcome = "return" THEN @ ELSE @ + 1,
                      !.retryCount = 0,
                      !.i = @ + 1,
                      !.result = IF LoopContinues(run.i, Len(run.names))
                                 THEN NewResult(run.names[run.i + 1], clock, run.bundle)
                                 ELSE NoResult,
                      !.pc = IF LoopContinues(run.i, Len(run.names))
                             THEN "request" ELSE "exportJson"]
  /\ UNCHANGED <<files, before, clock, gen, call, pure>>

\* runCreationFlow: the structured list is exported
WriteJson ==
  /\ run.pc = "exportJson"
  /\ files' = [files EXCEPT !.json = ExportJson(@, run.results, clock)]
  /\ run' = [run EXCEPT !.pc = "exportTxt"]
  /\ UNCHANGED <<before, clock, gen, call, pure>>

\* runCreationFlow: the flat list is exported; secrets follow when an alias
\* was created
WriteTxt ==
  /\ run.pc = "exportTxt"
  /\ files' = [files EXCEPT !.txt = ExportTxt(@, run.results)]
  /\ \E successfulAliases \in {SuccessfulAliases(run.results)} :
       run' = [run EXCEPT
                 !.emails = successfulAliases,
                 !.pc = IF Len(successfulAliases) > 0 THEN "passwords" ELSE "exportToon"]
  /\ UNCHANGED <<before, clock, gen, call, pure>>

\* menu option 2: every line of the flat list that holds an '@' is taken as
\* an address to secure
StartSecure ==
  /\ Begin
  /\ run' = IF files.txt.exists
            THEN [IdleRun EXCEPT !.cmd = "secure", !.pc = "passwords",
                                 !.emails = TxtLines(files.txt.content)]
            ELSE [IdleRun EXCEPT !.cmd = "secure"]
  /\ UNCHANGED <<files, gen, call, pure>>

\* generateUniquePasswords(emails) in the create run and in menu option 2
GeneratePasswords ==
  /\ run.pc = "passwords"
  /\ \E draws \in DrawSeqs(Len(run.emails)) :
     \E g \in {generateUniquePasswords(run.emails, draws)} :
       /\ g.done
       /\ run' = [run EXCEPT !.credentials = g.credentials, !.pc = "updateFiles"]
  /\ UNCHANGED <<files, before, clock, gen, call, pure>>

\* updateFilesWithPasswords(domainSlug, credentials)
UpdateFiles ==
  /\ run.pc = "updateFiles"
  /\ files' = updateFilesWithPasswords(files, run.credentials, clock)
  /\ run' = [run EXCEPT !.pc = IF run.cmd = "create" THEN "exportToon" ELSE "idle"]
  /\ UNCHANGED <<before, clock, gen, call, pure>>

\* runCreationFlow: the compact report is exported, the summary printed
WriteToon ==
  /\ run.pc = "exportToon"
  /\ files' = [files EXCEPT !.toon = ExportToon(@, run, clock)]
  /\ run' = [run EXCEPT !.pc = "idle"]
  /\ UNCHANGED <<before, clock, gen, call, pure>>

\* generate-passwords.js main, step 1: the addresses are read from the flat
\* list, or from the structured list when the argument ends with .json
StartGp(input) ==
  /\ Begin
  /\ \E found \in {IF input = "json" THEN files.json.exists ELSE files.txt.exists} :
     \E parsed \in {input = "txt" \/ files.json.parses} :
     \E data \in {IF files.json.isArray THEN files.json.results ELSE <<>>} :
     \E emails \in {IF ~found \/ ~parsed THEN <<>>
                    ELSE IF input = "json" THEN [i \in 1..Len(data) |-> data[i].alias]
                    ELSE TxtLines(files.txt.content)} :
       run' = [IdleRun EXCEPT
                 !.cmd = "generate-passwords", !.input = input, !.emails = emails,
                 !.pc = IF Len(emails) = 0 THEN "idle" ELSE "gpPasswords",
                 !.exitCode = IF Len(emails) = 0 THEN 1 ELSE 0]
  /\ UNCHANGED <<files, gen, call, pure>>

\* generate-passwords.js main, step 2
GpGenerate ==
  /\ run.pc = "gpPasswords"
  /\ \E draws \in DrawSeqs(Len(run.emails)) :
     \E g \in {generateUniquePasswordsGp(run.emails, draws)} :
       /\ g.done
       /\ run' = IF g.thrown
                 THEN [run EXCEPT !.pc = "idle", !.exitCode = 1]
                 ELSE [run EXCEPT !.credentials = g.credentials, !.pc = "gpWrite"]
  /\ UNCHANGED <<files, before, clock, gen, call, pure>>

\* generate-passwords.js main, steps 3 to 5
GpWrite ==
  /\ run.pc = "gpWrite"
  /\ files' = GpWriteFiles(files, run.credentials, InputFile(run.input), clock)
  /\ run' = [run EXCEPT !.pc = "idle"]
  /\ UNCHANGED <<before, clock, gen, call, pure>>

\* the export directory before the first command: empty, or holding a
\* structured list that does not parse
InitExport ==
  /\ gen = [i \in Instances |-> IdleGen]
  /\ call = IdleCall
  /\ files \in {NoFiles, [NoFiles EXCEPT !.json = Unparseable]}
  /\ before = files
  /\ run = IdleRun
  /\ clock = 0
  /\ pure = IdlePure

NextExport ==
  \/ \E bundleKey \in ExportBundles, cfg \in ExportInputs, dryRun \in BOOLEAN :
       StartCreate(bundleKey, cfg.count, cfg.seed, dryRun)
  \/ \E resp \in ExportResponses : CreateRespond(resp)
  \/ WriteJson
  \/ WriteTxt
  \/ StartSecure
  \/ GeneratePasswords
  \/ UpdateFiles
  \/ WriteToon
  \/ \E input \in {"txt", "json"} : StartGp(input)
  \/ GpGenerate
  \/ GpWrite

SpecExport == InitExport /\ [][NextExport]_vars

InitNames ==
  /\ gen = [i \in Instances |-> IdleGen]
  /\ call = IdleCall
  /\ ExportIdle

NextNames ==
  \/ \E i \in Instances, count \in Counts, seed \in Seeds, bundleKey \in NameBundles :
       StartGenerate(i, count, seed, bundleKey)
  \/ \E i \in Instances : StepGenerate(i)

SpecNames == InitNames /\ [][NextNames]_vars

\* ------------------------------------------------------------------------
\* The delete command (delete-email-aliases.js)
\* ------------------------------------------------------------------------
\* a record of a structured list, as the creation loop builds it
Record(alias, ruleId, status) ==
  [alias |-> alias, ruleId |-> ruleId, createdAt |-> 0, status |-> status,
   bundle |-> "privacy-guardian",
   error |-> IF status = "failed" THEN <<"Cloudflare API Error: ", "HTTP ", 403>>
             ELSE NoError,
   password |-> NoPassword]

\* aliases.filter(a => a.status === 'success' && a.ruleId)
DeletableAliases(aliases) ==
  SelectSeq(aliases, LAMBDA a : a.status = "success" /\ a.ruleId # Undefined)

\* process.exit(code), or main returning with nothing left to do
Exit(r, code) == [r EXCEPT !.pc = "idle", !.exited = TRUE, !.exitCode = code]

\* the delete command after the records are selected: a dry run lists them
\* and returns, otherwise the deletion loop starts
AfterSelect(r, dryRun) ==
  IF dryRun THEN Exit(r, 0) ELSE [r EXCEPT !.pc = "delete", !.i = 1]

\* main up to the deletion loop, for the input file inputFile that holds
\* json: the configuration
\* is validated, the file read and parsed, the deletable records selected.
\* filter is not a function of a parsed object: the TypeError reaches
\* main().catch, which exits with status 1
StartDelete(inputFile, json, configured, dryRun) ==
  /\ Begin
  /\ \E r \in {[IdleRun EXCEPT !.cmd = "delete", !.dryRun = dryRun,
                                !.input = inputFile, !.configured = configured]} :
       run' = IF ~configured THEN Exit(r, 1)
              ELSE IF ~json.exists \/ ~json.parses THEN Exit(r, 1)
              ELSE IF ~json.isArray THEN Exit(r, 1)
              ELSE IF Len(DeletableAliases(json.results)) = 0 THEN Exit(r, 0)
              ELSE AfterSelect([r EXCEPT !.deletable = DeletableAliases(json.results)],
                               dryRun)
  /\ UNCHANGED <<files, gen, call, pure>>

\* main, the deletion loop: the gateway answers the request for record i; the
\* wrapper retries, or the outcome is counted and the loop goes on; after the
\* last record the process exits
DeleteRespond(resp) ==
  /\ run.pc = "delete"
  /\ \E h \in {deleteEmailRoutingRule(resp, run.retryCount)} :
     \E req \in {Request("DELETE", run.deletable[run.i].ruleId, run.i, resp)} :
     \E failures \in {run.failureCount + (IF h.outcome = "throw" THEN 1 ELSE 0)} :
     \E counted \in {[run EXCEPT
                        !.requests = Append(@, req),
                        !.successCount = IF h.outcome = "return" THEN @ + 1 ELSE @,
                        !.failureCount = failures,
                        !.retryCount = 0,
                        !.i = @ + 1]} :
       run' = IF h.outcome = "retry"
              THEN [run EXCEPT !.retryCount = @ + 1, !.requests = Append(@, req)]
              ELSE IF run.i < Len(run.deletable) THEN counted
              ELSE Exit(counted, IF failures > 0 THEN 1 ELSE 0)
  /\ UNCHANGED <<files, before, clock, gen, call, pure>>

\* ------------------------------------------------------------------------
\* The two loops on their own: a create run up to its export, and a delete
\* run over a structured list given on the command line
\* ------------------------------------------------------------------------
\* largest alias count of a run of the creation loop
MaxItems == 5
\* most records in the input file of a delete run
MaxRecords == 3

\* the gateway's answers in the creation loop: created, or rate limited (an
\* alias fails when the retries are used up)
CreateResponses ==
  {HttpResponse(200, TRUE, "rule-1", Undefined),
   HttpResponse(429, FALSE, Undefined, Undefined)}

\* the gateway's answers in the deletion loop: deleted, rate limited, rejected
DeleteResponses ==
  {HttpResponse(200, TRUE, Undefined, Undefined),
   HttpResponse(429, FALSE, Undefined, Undefined),
   HttpResponse(403, FALSE, Undefined, Undefined)}

\* the records an input file may hold: created aliases with their rules, and
\* an alias whose creation failed
InputRecords ==
  {Record(<<"a", "@">> \o emailDomain, "rule-1", "success"),
   Record(<<"b", "@">> \o emailDomain, "rule-2", "success"),
   Record(<<"c", "@">> \o emailDomain, Undefined, "failed")}

\* the structured lists given to the delete command: bare arrays of records
InputLists == UNION {[1..n -> InputRecords] : n \in 1..MaxRecords}

InitLoop ==
  /\ gen = [i \in Instances |-> IdleGen]
  /\ call = IdleCall
  /\ ExportIdle

\* the command under study is the first one run: a create run of the
\* documented seed, or a delete run
LoopCreate(count, dryRun) ==
  /\ run.cmd = "none"
  /\ StartCreate("privacy-guardian", count, 42, dryRun)

LoopDelete(list, dryRun) ==
  /\ run.cmd = "none"
  /\ StartDelete("argument", JsonArray(list), TRUE, dryRun)

NextLoop ==
  \/ \E count \in 1..MaxItems, dryRun \in BOOLEAN : LoopCreate(count, dryRun)
  \/ \E resp \in CreateResponses : CreateRespond(resp)
  \/ \E list \in InputLists, dryRun \in BOOLEAN : LoopDelete(list, dryRun)
  \/ \E resp \in DeleteResponses : DeleteRespond(resp)

SpecLoop == InitLoop /\ [][NextLoop]_vars

\* ------------------------------------------------------------------------
\* The commands from start to exit: one session of the create command's menu,
\* and runs of the delete command on the structured list the session left or
\* on a list given on the command line
\* ------------------------------------------------------------------------
\* main of the create command: validateConfig throws, the process exits
ConfigError ==
  /\ run.cmd = "none"
  /\ Begin
  /\ run' = Exit([IdleRun EXCEPT !.cmd = "create", !.configured = FALSE], 1)
  /\ UNCHANGED <<files, gen, call, pure>>

\* menu option 1, while the session lasts
MenuCreate(count, dryRun) ==
  /\ ~run.exited
  /\ StartCreate("privacy-guardian", count, 42, dryRun)

\* menu option 6: process.exit(0), whatever the runs of the session did
ExitMenu ==
  /\ run.pc = "idle"
  /\ ~run.exited
  /\ run' = Exit([run EXCEPT !.cmd = "create"], 0)
  /\ UNCHANGED <<files, before, clock, gen, call, pure>>

\* a structured list of an earlier export given to the delete command: a
\* created alias and a failed one
ArgumentLists ==
  {<<Record(<<"a", "@">> \o emailDomain, "rule-1", "success"),
     Record(<<"c", "@">> \o emailDomain, Undefined, "failed")>>}

\* node delete-email-aliases.js <slug>.json
DeleteExport(configured, dryRun) ==
  /\ StartDelete("export", files.json, configured, dryRun)

\* node delete-email-aliases.js <other>.json
DeleteArgument(list, dryRun) ==
  /\ StartDelete("argument", JsonArray(list), TRUE, dryRun)

InitCommands ==
  /\ gen = [i \in Instances |-> IdleGen]
  /\ call = IdleCall
  /\ ExportIdle

NextCommands ==
  \/ ConfigError
  \/ \E count \in 1..MaxBatch, dryRun \in BOOLEAN : MenuCreate(count, dryRun)
  \/ \E resp \in ExportResponses : CreateRespond(resp)
  \/ WriteJson
  \/ WriteTxt
  \/ GeneratePasswords
  \/ UpdateFiles
  \/ WriteToon
  \/ ExitMenu
  \/ \E configured \in BOOLEAN, dryRun \in BOOLEAN : DeleteExport(configured, dryRun)
  \/ \E list \in ArgumentLists, dryRun \in BOOLEAN : DeleteArgument(list, dryRun)
  \/ \E resp \in DeleteResponses : DeleteRespond(resp)

SpecCommands == InitCommands /\ [][NextCommands]_vars

\* ------------------------------------------------------------------------
\* The name generation of a create run, one generateUniqueName call at a time,
\* from the start of the run or from the point where the bundle runs out
\* ------------------------------------------------------------------------
\* every name of the bundle
AllNames(bundle) ==
  {JoinName(bundle.prefixes[i], bundle.suffixes[j]) :
     i \in 1..Len(bundle.prefixes), j \in 1..Len(bundle.suffixes)}

\* where generateAliasNames stands when its next generateUniqueName call finds
\* no name: the names generated, the calls of random() made for them, and
\* the names of the bundle not yet used
ExhaustionPoints ==
  {[seed |-> 42, bundleKey |-> "privacy-guardian", generated |-> 3131, calls |-> 36906,
    unused |-> {<<"c","i","p","h","e","r",".","c","a","c","h","e">>,
                <<"c","r","y","p","t",".","s","h","a","d","o","w">>,
                <<"s","e","n","t","i","n","e","l",".","m","a","s","k">>,
                <<"s","t","e","a","l","t","h",".","n","o","d","e">>,
                <<"t","w","i","l","i","g","h","t",".","s","h","i","e","l","d">>}],
   [seed |-> 42, bundleKey |-> "mystic-shadow", generated |-> 3078, calls |-> 43994,
    unused |-> {<<"f","a","l","l","e","n",".","p","e","n","d","a","n","t">>,
                <<"s","p","e","c","t","r","a","l",".","s","o","n","g">>}],
   [seed |-> 143, bundleKey |-> "privacy-guardian", generated |-> 3133, calls |-> 40000,
    unused |-> {<<"i","n","c","o","g","n","i","t","o",".","a","s","y","l","u","m">>,
                <<"l","o","c","k","e","d",".","s","p","e","c","t","e","r">>,
                <<"v","e","i","l","e","d",".","r","e","s","e","r","v","e">>}],
   [seed |-> 143, bundleKey |-> "mystic-shadow", generated |-> 3073, calls |-> 34970,
    unused |-> {<<"c","u","r","s","e","d",".","s","h","a","d","e">>,
                <<"f","a","b","l","e","d",".","b","l","o","o","d">>,
                <<"f","o","r","g","o","t","t","e","n",".","b","l","a","d","e">>,
                <<"h","o","l","y",".","f","l","a","m","e">>,
                <<"m","y","t","h","i","c",".","k","e","y">>,
                <<"o","m","e","n",".","p","e","n","d","a","n","t">>,
                <<"w","i","l","d",".","c","i","r","c","l","e">>}]}

\* the state of the for loop of generateAliasNames in a run that asks for
\* count names: `generated` names are in usedNames, names holds those
\* generated from here on
NamesLoop(bundleKey, seed, count, dryRun, generated, usedNames, rng) ==
  [fn |-> "generateAliasNames", bundleKey |-> bundleKey, seed |-> seed,
   count |-> count, dryRun |-> dryRun, generated |-> generated,
   usedNames |-> usedNames, rng |-> rng, names |-> <<>>, phase |-> "call"]

\* the runs at the start of their name generation, and the runs that ask for
\* more names than the seed finds in the bundle, at the call that finds none
NamesLoops ==
  {NamesLoop(bundleKey, seed, count, dryRun, 0, {}, createSeededRandom(seed)) :
     bundleKey \in NameBundles, seed \in Seeds, count \in 1..MaxBatch,
     dryRun \in BOOLEAN}
  \cup
  {NamesLoop(x.bundleKey, x.seed, x.generated + more, dryRun, x.generated,
             AllNames(WORD_BUNDLES[x.bundleKey]) \ x.unused,
             Advance(createSeededRandom(x.seed), x.calls)) :
     x \in ExhaustionPoints, more \in 1..MaxBatch, dryRun \in BOOLEAN}

\* runCreationFlow in generateAliasNames: one iteration of the for loop; the
\* throw of generateUniqueName leaves through main().catch with status 1, the
\* last name leads to the dry-run listing or to the first gateway request
GenerateName ==
  /\ run.pc = "names"
  /\ pure.fn = "generateAliasNames"
  /\ pure.phase = "call"
  /\ \E g \in {generateUniqueName(pure.usedNames, pure.rng, WORD_BUNDLES[pure.bundleKey])} :
     \E names \in {IF g.ok THEN Append(pure.names, g.name) ELSE pure.names} :
     \E finished \in {g.ok /\ pure.generated + Len(names) >= pure.count} :
       /\ pure' = [pure EXCEPT
                     !.usedNames = g.usedNames, !.rng = g.rng, !.names = names,
                     !.phase = IF ~g.ok THEN "thrown"
                               ELSE IF finished THEN "returned" ELSE "call"]
       /\ run' = IF ~g.ok
                 THEN [run EXCEPT !.pc = "idle", !.exited = TRUE, !.exitCode = 1]
                 ELSE IF finished
                 THEN [run EXCEPT
                         !.names = names, !.i = 1,
                         !.pc = AfterNames(TRUE, run.dryRun),
                         !.result = IF AfterNames(TRUE, run.dryRun) = "request"
                                    THEN NewResult(names[1], clock, run.bundle)
                                    ELSE NoResult]
                 ELSE run
  /\ UNCHANGED <<files, before, clock, gen, call>>

InitCapacity ==
  /\ gen = [i \in Instances |-> IdleGen]
  /\ call = IdleCall
  /\ files = NoFiles
  /\ before = NoFiles
  /\ clock = 1
  /\ pure \in NamesLoops
  /\ run = [IdleRun EXCEPT !.cmd = "create", !.pc = "names",
                           !.bundle = pure.bundleKey, !.dryRun = pure.dryRun]

NextCapacity ==
  \/ GenerateName
  \/ \E resp \in CreateResponses : CreateRespond(resp)

SpecCapacity == InitCapacity /\ [][NextCapacity]_vars

\* ------------------------------------------------------------------------
\* The secret synthesizer on its own: one call of generateSecurePassword or
\* of generateUniquePasswords, in either implementation
\* ------------------------------------------------------------------------
\* longest secret asked for
MaxSecretLength == 9
\* most addresses in a batch of secrets
MaxAddresses == 3

\* the script that holds the function called
Implementations == {"create-email-aliases", "generate-passwords"}

\* the values randomBytes(1)[0] takes
ByteValues == {30, 255}

\* outcomes of the random sort of an array of n elements: it is left as it
\* is, reversed, or rotated by one place
Orders(n) ==
  {[i \in 1..n |-> i], [i \in 1..n |-> n + 1 - i], [i \in 1..n |-> (i % n) + 1]}

\* the bytes shuffleArray reads for an array of n elements
SwapScripts(n) == {[i \in 1..(n - 1) |-> b] : b \in ByteValues \cup {0}}

\* the calls of generateSecurePassword(length): a length below, at and above
\* the least one allowed, the random bytes, and the outcome of the shuffle
PasswordCalls ==
  UNION {[fn : {"generateSecurePassword"}, impl : Implementations, length : {n},
          bytes : [1..n -> ByteValues], order : Orders(n), swaps : SwapScripts(n),
          phase : {"call"}, chars : {<<>>}, out : {<<>>}]
         : n \in 7..MaxSecretLength}

\* the draws a batch is generated from: those of the export runs and a third
BatchDraws ==
  PasswordDraws \cup
  {[bytes |-> <<2, 2, 2, 2, 2, 2, 2, 2, 2, 2, 2, 2>>,
    order |-> <<2, 1, 4, 3, 6, 5, 8, 7, 10, 9, 12, 11>>,
    swaps |-> <<3, 3, 3, 3, 3, 3, 3, 3, 3, 3, 3>>]}

\* the addresses of a batch; a flat list may hold an address twice
BatchAddresses ==
  {<<"a", "@">> \o emailDomain, <<"b", "@">> \o emailDomain}

\* the calls of generateUniquePasswords(aliases)
BatchCalls ==
  UNION {[fn : {"generateUniquePasswords"}, impl : Implementations,
          aliases : [1..m -> BatchAddresses],
          draws : [1..(m + MaxRedraws) -> BatchDraws],
          phase : {"call"}, out : {<<>>}]
         : m \in 0..MaxAddresses}

\* generateSecurePassword(length) runs: it throws below 8 characters,
\* otherwise pushes one character per class, fills up and shuffles
CallGenerateSecurePassword ==
  /\ pure.fn = "generateSecurePassword"
  /\ pure.phase = "call"
  /\ pure' =
       IF pure.length < 8 THEN [pure EXCEPT !.phase = "thrown"]
       ELSE [pure EXCEPT
               !.phase = "returned",
               !.chars = PasswordChars(pure.bytes, pure.length),
               !.out = IF pure.impl = "create-email-aliases"
                       THEN generateSecurePassword(pure, pure.length)
                       ELSE generateSecurePasswordGp(pure, pure.length)]
  /\ UNCHANGED <<gen, call, exportVars>>

\* generateUniquePasswords(aliases) runs on the draws given: it returns, it
\* throws, or it has read them all and is still in its do-while
CallGenerateUniquePasswords ==
  /\ pure.fn = "generateUniquePasswords"
  /\ pure.phase = "call"
  /\ \E g \in {IF pure.impl = "create-email-aliases"
               THEN [thrown |-> FALSE] @@ generateUniquePasswords(pure.aliases, pure.draws)
               ELSE generateUniquePasswordsGp(pure.aliases, pure.draws)} :
       pure' = [pure EXCEPT !.phase = IF ~g.done THEN "drawing"
                                      ELSE IF g.thrown THEN "thrown" ELSE "returned",
                            !.out = g.credentials]
  /\ UNCHANGED <<gen, call, exportVars>>

\* the draw repeated n times
Repeat(draw, n) == [k \in 1..n |-> draw]

\* how often the secret of the first address is drawn again for the second:
\* never, once, and around the attempt bound
RedrawCounts ==
  {0, 1} \cup ((maxPasswordAttempts - 2)..(maxPasswordAttempts + 1))

\* the calls of generateUniquePasswords on two addresses where the draw of
\* the first address comes again `collisions` times before the draw `next`
RedrawCalls ==
  {[fn |-> "generateUniquePasswords", impl |-> impl, aliases |-> aliases,
    draws |-> <<first>> \o Repeat(first, n) \o <<next>>,
    collisions |-> n, phase |-> "call", out |-> <<>>]
   : impl \in Implementations, aliases \in [1..2 -> BatchAddresses],
     first \in BatchDraws, next \in BatchDraws, n \in RedrawCounts}

InitRedraws ==
  /\ gen = [i \in Instances |-> IdleGen]
  /\ call = IdleCall
  /\ files = NoFiles
  /\ before = NoFiles
  /\ run = IdleRun
  /\ clock = 0
  /\ pure \in RedrawCalls

NextRedraws == CallGenerateUniquePasswords

SpecRedraws == InitRedraws /\ [][NextRedraws]_vars

InitSecrets ==
  /\ gen = [i \in Instances |-> IdleGen]
  /\ call = IdleCall
  /\ files = NoFiles
  /\ before = NoFiles
  /\ run = IdleRun
  /\ clock = 0
  /\ pure \in PasswordCalls \cup BatchCalls

NextSecrets ==
  \/ CallGenerateSecurePassword
  \/ CallGenerateUniquePasswords

SpecSecrets == InitSecrets /\ [][NextSecrets]_vars

\* ------------------------------------------------------------------------
\* The classifier of the cleanup script (isGeneratedAlias)
\* ------------------------------------------------------------------------
\* WORD_BUNDLES of the cleanup script, as it stands
CLEANUP_WORD_BUNDLES ==
  "privacy-guardian" :> [
      prefixes |-> <<
        <<"a","n","o","n","y","m","o","u","s">>, <<"c","i","p","h","e","r">>, <<"c","r","y","p","t">>,
        <<"g","h","o","s","t">>, <<"h","i","d","d","e","n">>, <<"i","n","c","o","g","n","i","t","o">>,
        <<"m","a","s","k","e","d">>, <<"p","h","a","n","t","o","m">>, <<"p","r","i","v","a","t","e">>,
        <<"s","e","c","r","e","t">>, <<"s","e","c","u","r","e">>, <<"s","h","a","d","o","w">>,
        <<"s","h","i","e","l","d">>, <<"s","i","l","e","n","t">>, <<"s","t","e","a","l","t","h">>,
        <<"v","a","u","l","t">>, <<"v","e","i","l","e","d">>, <<"w","h","i","s","p","e","r">>,
        <<"c","l","o","a","k">>, <<"e","n","i","g","m","a">>, <<"o","b","s","c","u","r","e">>,
        <<"c","o","v","e","r","t">>, <<"d","i","s","c","r","e","t","e">>, <<"g","u","a","r","d","e","d">>,
        <<"k","e","e","p","e","r">>, <<"s","e","n","t","i","n","e","l">>, <<"w","a","r","d","e","n">>,
        <<"a","e","g","i","s">>, <<"b","a","s","t","i","o","n">>, <<"f","o","r","t","r","e","s","s">>,
        <<"h","a","v","e","n">>, <<"r","e","f","u","g","e">>, <<"s","a","n","c","t","u","a","r","y">>,
        <<"g","u","a","r","d","i","a","n">>, <<"p","r","o","t","e","c","t","o","r">>,
        <<"d","e","f","e","n","d","e","r">>, <<"e","n","c","r","y","p","t","e","d">>,
        <<"l","o","c","k","e","d">>, <<"s","e","a","l","e","d">>, <<"s","h","i","e","l","d","e","d">>,
        <<"a","r","m","o","r","e","d">>, <<"f","o","r","t","i","f","i","e","d">>,
        <<"i","n","v","i","s","i","b","l","e">>, <<"u","n","s","e","e","n">>,
        <<"u","n","t","r","a","c","e","d">>, <<"u","n","t","r","a","c","e","a","b","l","e">>,
        <<"n","a","m","e","l","e","s","s">>, <<"f","a","c","e","l","e","s","s">>, <<"v","o","i","d">>,
        <<"d","a","r","k">>, <<"n","i","g","h","t">>, <<"t","w","i","l","i","g","h","t">>,
        <<"d","u","s","k">>, <<"s","h","a","d","e">>, <<"u","m","b","r","a">>, <<"e","c","l","i","p","s","e">>
      >>,
      suffixes |-> <<
        <<"v","a","u","l","t">>, <<"c","i","p","h","e","r">>, <<"l","o","c","k">>, <<"k","e","y">>,
        <<"g","a","t","e">>, <<"w","a","l","l">>, <<"s","h","i","e","l","d">>, <<"g","u","a","r","d">>,
        <<"k","e","e","p","e","r">>, <<"w","a","t","c","h","e","r">>, <<"s","e","n","t","i","n","e","l">>,
        <<"p","r","o","x","y">>, <<"m","a","s","k">>, <<"c","l","o","a","k">>, <<"v","e","i","l">>,
        <<"s","h","a","d","o","w">>, <<"g","h","o","s","t">>, <<"p","h","a","n","t","o","m">>,
        <<"s","p","i","r","i","t">>, <<"s","h","a","d","e">>, <<"w","r","a","i","t","h">>,
        <<"s","p","e","c","t","e","r">>, <<"n","o","d","e">>, <<"r","e","l","a","y">>,
        <<"t","u","n","n","e","l">>, <<"b","r","i","d","g","e">>, <<"p","o","r","t","a","l">>,
        <<"p","a","s","s","a","g","e">>, <<"p","a","t","h">>, <<"r","o","u","t","e">>,
        <<"c","h","a","n","n","e","l">>, <<"c","o","n","d","u","i","t">>, <<"l","i","n","k">>,
        <<"n","e","x","u","s">>, <<"h","u","b">>, <<"c","o","r","e">>, <<"f","o","r","t","r","e","s","s">>,
        <<"b","a","s","t","i","o","n">>, <<"c","i","t","a","d","e","l">>, <<"h","a","v","e","n">>,
        <<"r","e","f","u","g","e">>, <<"s","a","n","c","t","u","a","r","y">>, <<"a","s","y","l","u","m">>,
        <<"d","e","n">>, <<"l","a","i","r">>, <<"c","a","c","h","e">>, <<"s","t","a","s","h">>,
        <<"r","e","s","e","r","v","e">>, <<"a","r","c","h","i","v","e">>,
        <<"r","e","p","o","s","i","t","o","r","y">>, <<"s","e","n","t","r","y">>,
        <<"l","o","o","k","o","u","t">>, <<"o","b","s","e","r","v","e","r">>, <<"m","o","n","i","t","o","r">>,
        <<"s","c","a","n","n","e","r">>, <<"d","e","t","e","c","t","o","r">>
      >>]
  @@ "tech-wizard" :> [
      prefixes |-> <<
        <<"b","i","n","a","r","y">>, <<"q","u","a","n","t","u","m">>, <<"n","e","u","r","a","l">>,
        <<"c","y","b","e","r">>, <<"d","i","g","i","t","a","l">>, <<"v","i","r","t","u","a","l">>,
        <<"p","i","x","e","l">>, <<"b","y","t","e">>, <<"n","a","n","o">>, <<"m","i","c","r","o">>,
        <<"m","a","c","r","o">>, <<"m","e","t","a">>, <<"p","r","o","t","o">>, <<"c","o","r","e">>,
        <<"k","e","r","n","e","l">>, <<"d","a","e","m","o","n">>, <<"t","h","r","e","a","d">>,
        <<"a","s","y","n","c">>, <<"s","y","n","c">>, <<"p","a","r","a","l","l","e","l">>,
        <<"v","e","c","t","o","r">>, <<"m","a","t","r","i","x">>, <<"l","o","g","i","c">>,
        <<"b","o","o","l","e","a","n">>, <<"a","l","g","o","r","i","t","h","m">>, <<"r","e","g","e","x">>,
        <<"s","y","n","t","a","x">>, <<"c","o","m","p","i","l","e">>, <<"r","u","n","t","i","m","e">>,
        <<"s","t","a","c","k">>, <<"h","e","a","p">>, <<"c","a","c","h","e">>, <<"b","u","f","f","e","r">>,
        <<"s","t","r","e","a","m">>, <<"p","i","p","e","l","i","n","e">>, <<"p","a","c","k","e","t">>,
        <<"p","r","o","t","o","c","o","l">>, <<"n","e","t","w","o","r","k">>, <<"m","e","s","h">>,
        <<"g","r","i","d">>, <<"c","l","o","u","d">>, <<"e","d","g","e">>, <<"f","o","g">>,
        <<"d","a","t","a">>, <<"c","r","y","p","t","o">>, <<"h","a","s","h">>, <<"t","o","k","e","n">>,
        <<"s","e","s","s","i","o","n">>, <<"i","n","s","t","a","n","c","e">>, <<"m","o","d","u","l","e">>,
        <<"s","c","r","i","p","t">>, <<"l","a","m","b","d","a">>, <<"d","e","l","t","a">>,
        <<"a","l","p","h","a">>, <<"b","e","t","a">>, <<"g","a","m","m","a">>, <<"o","m","e","g","a">>
      >>,
      suffixes |-> <<
        <<"b","i","t">>, <<"b","y","t","e">>, <<"n","o","d","e">>, <<"c","o","r","e">>, <<"c","h","i","p">>,
        <<"c","i","r","c","u","i","t">>, <<"g","a","t","e">>, <<"p","o","r","t">>,
        <<"s","o","c","k","e","t">>, <<"t","h","r","e","a","d">>, <<"p","r","o","c","e","s","s">>,
        <<"d","a","e","m","o","n">>, <<"s","e","r","v","i","c","e">>, <<"w","o","r","k","e","r">>,
        <<"a","g","e","n","t">>, <<"b","o","t">>, <<"p","r","o","x","y">>, <<"s","e","r","v","e","r">>,
        <<"c","l","i","e","n","t">>, <<"h","o","s","t">>, <<"m","e","s","h">>, <<"g","r","i","d">>,
        <<"n","e","t","w","o","r","k">>, <<"c","l","u","s","t","e","r">>, <<"s","h","a","r","d">>,
        <<"p","a","r","t","i","t","i","o","n">>, <<"s","e","g","m","e","n","t">>, <<"b","l","o","c","k">>,
        <<"c","h","u","n","k">>, <<"p","a","c","k","e","t">>, <<"f","r","a","m","e">>,
        <<"p","a","y","l","o","a","d">>, <<"h","e","a","d","e","r">>, <<"f","o","o","t","e","r">>,
        <<"w","r","a","p","p","e","r">>, <<"c","o","n","t","a","i","n","e","r">>, <<"p","o","d">>,
        <<"i","n","s","t","a","n","c","e">>, <<"r","e","p","l","i","c","a">>, <<"m","i","r","r","o","r">>,
        <<"c","a","c","h","e">>, <<"b","u","f","f","e","r">>, <<"q","u","e","u","e">>,
        <<"s","t","a","c","k">>, <<"h","e","a","p">>, <<"t","r","e","e">>, <<"g","r","a","p","h">>,
        <<"a","r","r","a","y">>, <<"v","e","c","t","o","r">>, <<"m","a","t","r","i","x">>,
        <<"t","e","n","s","o","r">>, <<"s","c","a","l","a","r">>, <<"p","o","i","n","t","e","r">>,
        <<"r","e","f","e","r","e","n","c","e">>, <<"h","a","n","d","l","e">>,
        <<"d","e","s","c","r","i","p","t","o","r">>
      >>]
  @@ "nature-zen" :> [
      prefixes |-> <<
        <<"a","l","p","i","n","e">>, <<"a","m","b","e","r">>, <<"a","r","c","t","i","c">>,
        <<"a","u","t","u","m","n">>, <<"a","z","u","r","e">>, <<"b","r","e","e","z","e">>,
        <<"c","a","l","m">>, <<"c","a","s","c","a","d","e">>, <<"c","e","d","a","r">>,
        <<"c","l","o","u","d">>, <<"c","o","r","a","l">>, <<"c","r","y","s","t","a","l">>,
        <<"d","a","w","n">>, <<"d","u","s","k">>, <<"e","a","r","t","h">>, <<"e","m","e","r","a","l","d">>,
        <<"f","o","r","e","s","t">>, <<"f","r","o","s","t">>, <<"g","l","a","c","i","a","l">>,
        <<"g","o","l","d","e","n">>, <<"j","a","d","e">>, <<"l","u","n","a","r">>, <<"m","a","p","l","e">>,
        <<"m","a","r","i","n","e">>, <<"m","e","a","d","o","w">>, <<"m","i","s","t","y">>,
        <<"m","o","s","s">>, <<"m","o","u","n","t","a","i","n">>, <<"o","c","e","a","n">>,
        <<"o","l","i","v","e">>, <<"o","p","a","l">>, <<"p","a","c","i","f","i","c">>,
        <<"p","e","a","r","l">>, <<"p","e","b","b","l","e">>, <<"p","i","n","e">>,
        <<"q","u","a","r","t","z">>, <<"r","a","i","n">>, <<"r","i","v","e","r">>, <<"s","a","g","e">>,
        <<"s","a","n","d">>, <<"s","a","p","p","h","i","r","e">>, <<"s","k","y">>, <<"s","n","o","w">>,
        <<"s","o","l","a","r">>, <<"s","p","r","i","n","g">>, <<"s","t","e","l","l","a","r">>,
        <<"s","t","o","n","e">>, <<"s","u","m","m","e","r">>, <<"s","u","n","s","e","t">>,
        <<"t","h","u","n","d","e","r">>, <<"t","i","d","e">>, <<"t","i","m","b","e","r">>,
        <<"t","o","p","a","z">>, <<"v","a","l","l","e","y">>, <<"v","e","r","d","a","n","t">>,
        <<"w","i","l","d">>
      >>,
      suffixes |-> <<
        <<"b","a","y">>, <<"b","e","a","c","h">>, <<"b","r","o","o","k">>, <<"c","a","n","y","o","n">>,
        <<"c","a","v","e">>, <<"c","l","i","f","f">>, <<"c","l","o","u","d">>, <<"c","o","a","s","t">>,
        <<"c","o","v","e">>, <<"c","r","e","e","k">>, <<"d","e","l","t","a">>, <<"d","u","n","e">>,
        <<"f","a","l","l","s">>, <<"f","i","e","l","d">>, <<"f","j","o","r","d">>,
        <<"f","o","r","e","s","t">>, <<"g","a","r","d","e","n">>, <<"g","l","a","c","i","e","r">>,
        <<"g","r","o","v","e">>, <<"h","a","r","b","o","r">>, <<"h","a","v","e","n">>, <<"h","i","l","l">>,
        <<"h","o","l","l","o","w">>, <<"i","s","l","a","n","d">>, <<"l","a","k","e">>,
        <<"l","a","g","o","o","n">>, <<"m","a","r","s","h">>, <<"m","e","a","d","o","w">>,
        <<"m","e","s","a">>, <<"m","i","s","t">>, <<"m","o","u","n","t","a","i","n">>,
        <<"o","a","s","i","s">>, <<"o","c","e","a","n">>, <<"p","a","s","s">>, <<"p","a","t","h">>,
        <<"p","e","a","k">>, <<"p","i","n","e">>, <<"p","l","a","i","n">>, <<"p","o","n","d">>,
        <<"p","r","a","i","r","i","e">>, <<"r","e","e","f">>, <<"r","i","d","g","e">>,
        <<"r","i","v","e","r">>, <<"r","o","c","k">>, <<"s","h","o","r","e">>, <<"s","p","r","i","n","g">>,
        <<"s","t","o","n","e">>, <<"s","t","r","e","a","m">>, <<"s","u","m","m","i","t">>,
        <<"t","r","a","i","l">>, <<"t","r","e","e">>, <<"t","u","n","d","r","a">>, <<"v","a","l","e">>,
        <<"v","a","l","l","e","y">>, <<"v","i","e","w">>, <<"w","a","t","e","r">>, <<"w","a","v","e">>,
        <<"w","i","l","d">>, <<"w","o","o","d">>, <<"w","o","o","d","s">>
      >>]
  @@ "urban-legend" :> [
      prefixes |-> <<
        <<"m","e","t","r","o">>, <<"u","r","b","a","n">>, <<"c","i","t","y">>, <<"c","i","v","i","c">>,
        <<"t","o","w","n">>, <<"l","o","c","a","l">>, <<"c","e","n","t","r","a","l">>,
        <<"d","o","w","n","t","o","w","n">>, <<"u","p","t","o","w","n">>, <<"m","i","d","t","o","w","n">>,
        <<"s","u","b","w","a","y">>, <<"s","t","r","e","e","t">>, <<"a","v","e","n","u","e">>,
        <<"l","a","n","e">>, <<"a","l","l","e","y">>, <<"r","o","a","d">>, <<"r","o","u","t","e">>,
        <<"p","a","t","h">>, <<"b","l","o","c","k">>, <<"s","q","u","a","r","e">>,
        <<"m","a","r","k","e","t">>, <<"p","l","a","z","a">>, <<"m","a","l","l">>, <<"s","h","o","p">>,
        <<"s","t","o","r","e">>, <<"c","a","f","e">>, <<"c","l","u","b">>, <<"p","u","b">>, <<"b","a","r">>,
        <<"h","o","t","e","l">>, <<"m","o","t","e","l">>, <<"i","n","n">>, <<"h","o","s","t","e","l">>,
        <<"h","o","u","s","e">>, <<"h","o","m","e">>, <<"f","l","a","t">>, <<"a","p","t">>,
        <<"l","o","f","t">>, <<"s","t","u","d","i","o">>, <<"r","o","o","m">>, <<"f","l","o","o","r">>,
        <<"l","e","v","e","l">>, <<"z","o","n","e">>, <<"a","r","e","a">>, <<"r","e","g","i","o","n">>,
        <<"d","i","s","t","r","i","c","t">>, <<"w","a","r","d">>, <<"s","e","c","t","o","r">>,
        <<"q","u","a","r","t","e","r">>, <<"p","a","r","t">>, <<"s","i","d","e">>, <<"e","n","d">>,
        <<"e","d","g","e">>, <<"l","i","m","i","t">>, <<"b","o","u","n","d">>
      >>,
      suffixes |-> <<
        <<"c","i","t","y">>, <<"t","o","w","n">>, <<"v","i","l","l","e">>, <<"b","u","r","g">>,
        <<"p","o","l">>, <<"p","o","r","t">>, <<"h","a","v","e","n">>, <<"b","e","a","c","h">>,
        <<"s","i","d","e">>, <<"v","i","e","w">>, <<"l","a","n","d">>, <<"w","o","r","l","d">>,
        <<"g","l","o","b","e">>, <<"s","p","h","e","r","e">>, <<"o","r","b">>, <<"z","o","n","e">>,
        <<"a","r","e","a">>, <<"r","e","g","i","o","n">>, <<"p","l","a","c","e">>, <<"s","p","o","t">>,
        <<"s","i","t","e">>, <<"n","e","t">>, <<"w","e","b">>, <<"l","i","n","k">>, <<"h","u","b">>,
        <<"n","o","d","e">>, <<"p","o","i","n","t">>, <<"b","a","s","e">>, <<"c","a","m","p">>,
        <<"p","o","s","t">>, <<"s","t","a","t","i","o","n">>, <<"s","t","o","p">>, <<"d","e","p","o","t">>,
        <<"y","a","r","d">>, <<"p","a","r","k">>, <<"g","a","r","d","e","n">>, <<"f","i","e","l","d">>,
        <<"g","r","o","u","n","d">>, <<"l","o","t">>, <<"p","l","o","t">>, <<"s","p","a","c","e">>,
        <<"r","o","o","m">>, <<"h","a","l","l">>, <<"c","e","n","t","e","r">>, <<"c","o","r","e">>,
        <<"h","e","a","r","t">>, <<"s","o","u","l">>, <<"m","i","n","d">>, <<"l","i","f","e">>,
        <<"s","t","y","l","e">>, <<"w","a","y">>, <<"m","o","d","e">>, <<"f","o","r","m">>,
        <<"t","y","p","e">>, <<"k","i","n","d">>, <<"s","o","r","t">>
      >>]
  @@ "cosmic-explorer" :> [
      prefixes |-> <<
        <<"a","l","p","h","a">>, <<"a","s","t","r","o">>, <<"a","t","o","m">>, <<"a","u","r","o","r","a">>,
        <<"b","e","t","a">>, <<"b","i","n","a","r","y">>, <<"b","l","a","c","k">>, <<"b","l","u","e">>,
        <<"c","o","m","e","t">>, <<"c","o","s","m","i","c">>, <<"d","a","r","k">>, <<"d","e","l","t","a">>,
        <<"d","u","s","t">>, <<"d","w","a","r","f">>, <<"e","c","l","i","p","s","e">>,
        <<"e","n","e","r","g","y">>, <<"e","v","e","n","t">>, <<"f","i","e","l","d">>,
        <<"f","l","a","r","e">>, <<"f","o","r","c","e">>, <<"g","a","m","m","a">>, <<"g","i","a","n","t">>,
        <<"g","r","a","v","i","t","y">>, <<"h","a","l","o">>, <<"h","y","p","e","r">>, <<"i","o","n">>,
        <<"l","i","g","h","t">>, <<"l","u","n","a","r">>, <<"m","a","g","n","e","t">>, <<"m","a","r","s">>,
        <<"m","a","s","s">>, <<"m","a","t","t","e","r">>, <<"m","e","g","a">>, <<"m","e","t","e","o","r">>,
        <<"m","o","o","n">>, <<"n","e","b","u","l","a">>, <<"n","e","u","t","r","o","n">>,
        <<"n","o","v","a">>, <<"o","r","b","i","t">>, <<"p","h","a","s","e">>, <<"p","l","a","n","e","t">>,
        <<"p","l","a","s","m","a">>, <<"p","o","l","a","r">>, <<"p","r","o","b","e">>,
        <<"p","r","o","t","o","n">>, <<"p","u","l","s","e">>, <<"q","u","a","s","a","r">>,
        <<"r","a","d","i","o">>, <<"r","a","y">>, <<"r","e","d">>, <<"r","i","n","g">>,
        <<"r","o","c","k","e","t">>, <<"r","o","v","e","r">>, <<"s","c","a","n">>, <<"s","c","o","p","e">>,
        <<"s","e","c","t","o","r">>, <<"s","h","i","f","t">>, <<"s","k","y">>, <<"s","o","l","a","r">>,
        <<"s","o","n","i","c">>, <<"s","p","a","c","e">>, <<"s","t","a","r">>, <<"s","u","n">>,
        <<"s","u","p","e","r">>, <<"t","e","r","r","a">>, <<"t","i","m","e">>, <<"v","o","i","d">>,
        <<"w","a","r","p">>, <<"w","h","i","t","e">>, <<"z","e","r","o">>
      >>,
      suffixes |-> <<
        <<"b","e","l","t">>, <<"b","o","d","y">>, <<"c","l","o","u","d">>, <<"c","o","r","e">>,
        <<"d","i","s","k">>, <<"d","u","s","t">>, <<"f","i","e","l","d">>, <<"f","l","a","r","e">>,
        <<"f","o","r","c","e">>, <<"f","o","r","m">>, <<"g","a","s">>, <<"g","l","o","w">>,
        <<"h","a","l","o">>, <<"h","o","l","e">>, <<"j","e","t">>, <<"l","i","g","h","t">>,
        <<"l","i","n","e">>, <<"l","o","o","p">>, <<"m","a","s","s">>, <<"m","o","d","e">>,
        <<"n","o","d","e">>, <<"p","a","t","h">>, <<"p","h","a","s","e">>, <<"p","l","a","n","e">>,
        <<"p","o","i","n","t">>, <<"p","o","l","e">>, <<"p","u","l","s","e">>, <<"r","a","y">>,
        <<"r","i","n","g">>, <<"s","c","a","n">>, <<"s","c","o","p","e">>, <<"s","h","o","c","k">>,
        <<"s","i","d","e">>, <<"s","i","g","n">>, <<"s","i","t","e">>, <<"s","k","y">>,
        <<"s","p","a","c","e">>, <<"s","p","o","t">>, <<"s","t","a","r">>, <<"s","t","o","r","m">>,
        <<"t","a","i","l">>, <<"t","i","m","e">>, <<"v","i","e","w">>, <<"v","o","i","d">>,
        <<"w","a","k","e">>, <<"w","a","v","e">>, <<"w","i","n","d">>, <<"z","o","n","e">>,
        <<"b","a","s","e">>, <<"d","e","c","k">>, <<"d","o","c","k">>, <<"g","a","t","e">>,
        <<"h","e","l","m">>, <<"l","o","c","k">>, <<"p","o","r","t">>, <<"p","o","s","t">>
      >>]
  @@ "mystic-shadow" :> [
      prefixes |-> <<
        <<"a","r","c","a","n","e">>, <<"a","s","t","r","a","l">>, <<"a","u","r","a">>, <<"b","a","n","e">>,
        <<"b","l","o","o","d">>, <<"b","o","n","e">>, <<"c","h","a","o","s">>, <<"c","h","a","r","m">>,
        <<"c","i","p","h","e","r">>, <<"c","u","r","s","e">>, <<"d","a","r","k">>, <<"d","e","m","o","n">>,
        <<"d","o","o","m">>, <<"d","r","a","g","o","n">>, <<"d","r","e","a","m">>, <<"d","u","s","k">>,
        <<"d","u","s","t">>, <<"e","l","d","e","r">>, <<"e","m","b","e","r">>, <<"f","a","t","e">>,
        <<"f","e","a","r">>, <<"f","i","r","e">>, <<"f","l","a","m","e">>, <<"g","h","o","s","t">>,
        <<"g","l","o","o","m">>, <<"g","r","i","m">>, <<"h","a","z","e","l">>, <<"h","e","x">>,
        <<"h","o","l","l","o","w">>, <<"h","o","n","o","r">>, <<"h","o","p","e">>, <<"i","c","e">>,
        <<"i","r","o","n">>, <<"j","a","d","e">>, <<"k","a","r","m","a">>, <<"l","i","g","h","t">>,
        <<"l","o","r","d">>, <<"l","o","r","e">>, <<"l","u","c","k">>, <<"m","a","g","e">>,
        <<"m","a","g","i","c">>, <<"m","a","n","a">>, <<"m","i","n","d">>, <<"m","o","o","n">>,
        <<"m","y","t","h">>, <<"n","i","g","h","t">>, <<"n","u","l","l">>, <<"o","m","e","n">>,
        <<"o","r","a","c","l","e">>, <<"p","a","i","n">>, <<"p","a","l","e">>, <<"r","u","n","e">>,
        <<"s","h","a","d","e">>, <<"s","h","a","d","o","w">>, <<"s","o","u","l">>, <<"s","p","e","l","l">>
      >>,
      suffixes |-> <<
        <<"b","a","n","e">>, <<"b","i","n","d">>, <<"b","l","a","d","e">>, <<"b","l","o","o","d">>,
        <<"b","o","n","e">>, <<"b","o","r","n">>, <<"b","o","u","n","d">>, <<"b","r","e","a","t","h">>,
        <<"c","a","l","l","e","r">>, <<"c","a","s","t","e","r">>, <<"c","h","a","n","t">>,
        <<"c","h","a","r","m">>, <<"c","l","a","w">>, <<"c","l","o","a","k">>, <<"c","o","d","e">>,
        <<"c","o","r","e">>, <<"c","r","a","f","t">>, <<"c","r","e","s","t">>, <<"c","r","o","w","n">>,
        <<"c","u","r","s","e">>, <<"d","a","n","c","e","r">>, <<"d","o","o","m">>, <<"d","r","e","a","m">>,
        <<"d","r","i","n","k","e","r">>, <<"d","u","s","t">>, <<"e","a","t","e","r">>, <<"e","d","g","e">>,
        <<"e","y","e">>, <<"f","a","n","g">>, <<"f","i","r","e">>, <<"f","l","a","m","e">>,
        <<"f","o","r","g","e">>, <<"g","a","z","e">>, <<"g","h","o","s","t">>, <<"g","u","a","r","d">>,
        <<"g","u","i","d","e">>, <<"h","a","n","d">>, <<"h","e","a","r","t">>, <<"h","e","l","m">>,
        <<"h","o","r","n">>, <<"h","o","s","t">>, <<"h","u","n","t","e","r">>, <<"k","e","e","p","e","r">>,
        <<"k","n","i","g","h","t">>, <<"l","o","r","d">>, <<"l","o","r","e">>, <<"m","a","g","e">>,
        <<"m","a","r","k">>, <<"m","a","s","k">>, <<"m","i","n","d">>, <<"m","i","s","t">>,
        <<"m","o","o","n">>, <<"m","o","t","h">>, <<"n","i","g","h","t">>, <<"p","a","t","h">>,
        <<"p","a","w">>
      >>]

\* WORD_BUNDLES of the cleanup script, in its earlier version
CLEANUP_WORD_BUNDLES_EARLY ==
  "privacy-guardian" :> [
      prefixes |-> <<
        <<"a","n","o","n","y","m","o","u","s">>, <<"c","i","p","h","e","r">>, <<"c","r","y","p","t">>,
        <<"g","h","o","s","t">>, <<"h","i","d","d","e","n">>, <<"i","n","c","o","g","n","i","t","o">>,
        <<"m","a","s","k","e","d">>, <<"p","h","a","n","t","o","m">>, <<"p","r","i","v","a","t","e">>,
        <<"s","e","c","r","e","t">>, <<"s","e","c","u","r","e">>, <<"s","h","a","d","o","w">>,
        <<"s","h","i","e","l","d">>, <<"s","i","l","e","n","t">>, <<"s","t","e","a","l","t","h">>,
        <<"v","a","u","l","t">>, <<"v","e","i","l","e","d">>, <<"w","h","i","s","p","e","r">>,
        <<"c","l","o","a","k">>, <<"e","n","i","g","m","a">>, <<"o","b","s","c","u","r","e">>,
        <<"c","o","v","e","r","t">>, <<"d","i","s","c","r","e","t","e">>, <<"g","u","a","r","d","e","d">>,
        <<"k","e","e","p","e","r">>, <<"s","e","n","t","i","n","e","l">>, <<"w","a","r","d","e","n">>,
        <<"a","e","g","i","s">>, <<"b","a","s","t","i","o","n">>, <<"f","o","r","t","r","e","s","s">>,
        <<"h","a","v","e","n">>, <<"r","e","f","u","g","e">>, <<"s","a","n","c","t","u","a","r","y">>,
        <<"g","u","a","r","d","i","a","n">>, <<"p","r","o","t","e","c","t","o","r">>,
        <<"d","e","f","e","n","d","e","r">>, <<"e","n","c","r","y","p","t","e","d">>,
        <<"l","o","c","k","e","d">>, <<"s","e","a","l","e","d">>, <<"s","h","i","e","l","d","e","d">>,
        <<"a","r","m","o","r","e","d">>, <<"f","o","r","t","i","f","i","e","d">>,
        <<"i","n","v","i","s","i","b","l","e">>, <<"u","n","s","e","e","n">>,
        <<"u","n","t","r","a","c","e","d">>, <<"u","n","t","r","a","c","e","a","b","l","e">>,
        <<"n","a","m","e","l","e","s","s">>, <<"f","a","c","e","l","e","s","s">>, <<"v","o","i","d">>,
        <<"d","a","r","k">>, <<"n","i","g","h","t">>, <<"t","w","i","l","i","g","h","t">>,
        <<"d","u","s","k">>, <<"s","h","a","d","e">>, <<"u","m","b","r","a">>, <<"e","c","l","i","p","s","e">>
      >>,
      suffixes |-> <<
        <<"v","a","u","l","t">>, <<"c","i","p","h","e","r">>, <<"l","o","c","k">>, <<"k","e","y">>,
        <<"g","a","t","e">>, <<"w","a","l","l">>, <<"s","h","i","e","l","d">>, <<"g","u","a","r","d">>,
        <<"k","e","e","p","e","r">>, <<"w","a","t","c","h","e","r">>, <<"s","e","n","t","i","n","e","l">>,
        <<"p","r","o","x","y">>, <<"m","a","s","k">>, <<"c","l","o","a","k">>, <<"v","e","i","l">>,
        <<"s","h","a","d","o","w">>, <<"g","h","o","s","t">>, <<"p","h","a","n","t","o","m">>,
        <<"s","p","i","r","i","t">>, <<"s","h","a","d","e">>, <<"w","r","a","i","t","h">>,
        <<"s","p","e","c","t","e","r">>, <<"n","o","d","e">>, <<"r","e","l","a","y">>,
        <<"t","u","n","n","e","l">>, <<"b","r","i","d","g","e">>, <<"p","o","r","t","a","l">>,
        <<"p","a","s","s","a","g","e">>, <<"p","a","t","h">>, <<"r","o","u","t","e">>,
        <<"c","h","a","n","n","e","l">>, <<"c","o","n","d","u","i","t">>, <<"l","i","n","k">>,
        <<"n","e","x","u","s">>, <<"h","u","b">>, <<"c","o","r","e">>, <<"f","o","r","t","r","e","s","s">>,
        <<"b","a","s","t","i","o","n">>, <<"c","i","t","a","d","e","l">>, <<"h","a","v","e","n">>,
        <<"r","e","f","u","g","e">>, <<"s","a","n","c","t","u","a","r","y">>, <<"a","s","y","l","u","m">>,
        <<"d","e","n">>, <<"l","a","i","r">>, <<"c","a","c","h","e">>, <<"s","t","a","s","h">>,
        <<"r","e","s","e","r","v","e">>, <<"a","r","c","h","i","v","e">>,
        <<"r","e","p","o","s","i","t","o","r","y">>, <<"s","e","n","t","r","y">>,
        <<"l","o","o","k","o","u","t">>, <<"o","b","s","e","r","v","e","r">>, <<"m","o","n","i","t","o","r">>,
        <<"s","c","a","n","n","e","r">>, <<"d","e","t","e","c","t","o","r">>
      >>]
  @@ "tech-wizard" :> [
      prefixes |-> <<
        <<"q","u","a","n","t","u","m">>, <<"c","y","b","e","r">>, <<"n","a","n","o">>,
        <<"m","i","c","r","o">>, <<"m","e","g","a">>, <<"g","i","g","a">>, <<"t","e","r","a">>,
        <<"u","l","t","r","a">>, <<"h","y","p","e","r">>, <<"s","u","p","e","r">>, <<"m","e","t","a">>,
        <<"p","r","o","t","o">>, <<"n","e","o">>, <<"n","e","x","t">>, <<"f","u","t","u","r","e">>,
        <<"s","m","a","r","t">>, <<"i","n","t","e","l">>, <<"l","o","g","i","c">>, <<"d","a","t","a">>,
        <<"i","n","f","o">>, <<"n","e","t">>, <<"w","e","b">>, <<"d","i","g","i","t","a","l">>,
        <<"v","i","r","t","u","a","l">>, <<"c","l","o","u","d">>, <<"m","a","t","r","i","x">>,
        <<"b","i","n","a","r","y">>, <<"c","o","d","e">>, <<"p","i","x","e","l">>, <<"b","y","t","e">>,
        <<"b","i","t">>, <<"c","a","c","h","e">>, <<"b","u","f","f","e","r">>, <<"s","t","r","e","a","m">>,
        <<"f","l","o","w">>, <<"f","l","u","x">>, <<"p","u","l","s","e">>, <<"w","a","v","e">>,
        <<"s","i","g","n","a","l">>, <<"b","e","a","c","o","n">>, <<"r","a","d","a","r">>,
        <<"s","o","n","a","r">>, <<"l","a","s","e","r">>, <<"p","h","o","t","o","n">>,
        <<"e","l","e","c","t","r","o","n">>, <<"n","e","u","t","r","o","n">>, <<"p","r","o","t","o","n">>,
        <<"a","t","o","m">>, <<"n","u","c","l","e","u","s">>, <<"c","o","r","e">>, <<"c","h","i","p">>,
        <<"c","i","r","c","u","i","t">>, <<"n","o","d","e">>, <<"n","e","t","w","o","r","k">>,
        <<"s","y","s","t","e","m">>, <<"p","r","o","t","o","c","o","l">>,
        <<"a","l","g","o","r","i","t","h","m">>, <<"f","u","n","c","t","i","o","n">>,
        <<"m","e","t","h","o","d">>, <<"p","r","o","c","e","s","s">>, <<"t","h","r","e","a","d">>,
        <<"s","t","a","c","k">>, <<"q","u","e","u","e">>, <<"a","r","r","a","y">>,
        <<"v","e","c","t","o","r">>, <<"m","a","t","r","i","x">>, <<"t","e","n","s","o","r">>,
        <<"g","r","a","p","h">>, <<"t","r","e","e">>
      >>,
      suffixes |-> <<
        <<"t","e","c","h">>, <<"l","a","b">>, <<"c","o","r","e">>, <<"h","u","b">>, <<"n","e","t">>,
        <<"w","e","b">>, <<"c","l","o","u","d">>, <<"n","o","d","e">>, <<"l","i","n","k">>,
        <<"p","o","r","t">>, <<"g","a","t","e">>, <<"z","o","n","e">>, <<"r","e","a","l","m">>,
        <<"s","p","a","c","e">>, <<"s","p","h","e","r","e">>, <<"d","o","m","a","i","n">>,
        <<"f","i","e","l","d">>, <<"m","a","t","r","i","x">>, <<"g","r","i","d">>, <<"m","e","s","h">>,
        <<"n","e","t","w","o","r","k">>, <<"s","y","s","t","e","m">>, <<"p","l","a","t","f","o","r","m">>,
        <<"e","n","g","i","n","e">>, <<"d","r","i","v","e">>, <<"f","o","r","c","e">>,
        <<"p","o","w","e","r">>, <<"e","n","e","r","g","y">>, <<"f","l","u","x">>, <<"f","l","o","w">>,
        <<"s","t","r","e","a","m">>, <<"w","a","v","e">>, <<"p","u","l","s","e">>,
        <<"s","i","g","n","a","l">>, <<"b","e","a","c","o","n">>, <<"t","o","w","e","r">>,
        <<"s","t","a","t","i","o","n">>, <<"t","e","r","m","i","n","a","l">>,
        <<"i","n","t","e","r","f","a","c","e">>, <<"d","a","s","h","b","o","a","r","d">>,
        <<"c","o","n","s","o","l","e">>, <<"p","a","n","e","l">>, <<"s","c","r","e","e","n">>,
        <<"d","i","s","p","l","a","y">>, <<"m","o","n","i","t","o","r">>, <<"s","c","a","n","n","e","r">>,
        <<"s","e","n","s","o","r">>, <<"d","e","t","e","c","t","o","r">>, <<"a","n","a","l","y","z","e","r">>,
        <<"p","r","o","c","e","s","s","o","r">>, <<"c","o","m","p","i","l","e","r">>,
        <<"p","a","r","s","e","r">>, <<"i","n","t","e","r","p","r","e","t","e","r">>,
        <<"d","e","b","u","g","g","e","r">>, <<"o","p","t","i","m","i","z","e","r">>,
        <<"e","n","h","a","n","c","e","r">>, <<"b","o","o","s","t","e","r">>,
        <<"a","c","c","e","l","e","r","a","t","o","r">>, <<"a","m","p","l","i","f","i","e","r">>,
        <<"m","u","l","t","i","p","l","i","e","r">>, <<"g","e","n","e","r","a","t","o","r">>,
        <<"c","r","e","a","t","o","r">>, <<"b","u","i","l","d","e","r">>, <<"m","a","k","e","r">>,
        <<"f","o","r","g","e">>, <<"f","a","c","t","o","r","y">>, <<"w","o","r","k","s","h","o","p">>,
        <<"s","t","u","d","i","o">>
      >>]
  @@ "nature-zen" :> [
      prefixes |-> <<
        <<"z","e","n">>, <<"c","a","l","m">>, <<"p","e","a","c","e">>, <<"q","u","i","e","t">>,
        <<"s","t","i","l","l">>, <<"g","e","n","t","l","e">>, <<"s","o","f","t">>, <<"m","i","l","d">>,
        <<"l","i","g","h","t">>, <<"c","l","e","a","r">>, <<"p","u","r","e">>, <<"f","r","e","s","h">>,
        <<"c","l","e","a","n">>, <<"n","a","t","u","r","a","l">>, <<"o","r","g","a","n","i","c">>,
        <<"g","r","e","e","n">>, <<"e","c","o">>, <<"w","i","l","d">>, <<"f","o","r","e","s","t">>,
        <<"w","o","o","d">>, <<"t","r","e","e">>, <<"l","e","a","f">>, <<"b","r","a","n","c","h">>,
        <<"r","o","o","t">>, <<"s","e","e","d">>, <<"b","l","o","o","m">>, <<"f","l","o","w","e","r">>,
        <<"p","e","t","a","l">>, <<"g","a","r","d","e","n">>, <<"m","e","a","d","o","w">>,
        <<"g","r","o","v","e">>, <<"g","l","a","d","e">>, <<"c","l","e","a","r","i","n","g">>,
        <<"v","a","l","l","e","y">>, <<"c","a","n","y","o","n">>, <<"r","a","v","i","n","e">>,
        <<"g","o","r","g","e">>, <<"c","l","i","f","f">>, <<"p","e","a","k">>, <<"s","u","m","m","i","t">>,
        <<"m","o","u","n","t","a","i","n">>, <<"h","i","l","l">>, <<"r","i","d","g","e">>,
        <<"s","l","o","p","e">>, <<"m","e","s","a">>, <<"b","u","t","t","e">>,
        <<"p","l","a","t","e","a","u">>, <<"p","l","a","i","n">>, <<"p","r","a","i","r","i","e">>,
        <<"s","a","v","a","n","n","a">>, <<"t","u","n","d","r","a">>, <<"d","e","s","e","r","t">>,
        <<"o","a","s","i","s">>, <<"s","p","r","i","n","g">>, <<"s","t","r","e","a","m">>,
        <<"c","r","e","e","k">>, <<"b","r","o","o","k">>, <<"r","i","v","e","r">>, <<"l","a","k","e">>,
        <<"p","o","n","d">>, <<"p","o","o","l">>, <<"w","a","t","e","r","f","a","l","l">>,
        <<"c","a","s","c","a","d","e">>, <<"r","a","p","i","d","s">>, <<"o","c","e","a","n">>,
        <<"s","e","a">>, <<"b","a","y">>, <<"c","o","v","e">>, <<"i","n","l","e","t">>,
        <<"f","j","o","r","d">>
      >>,
      suffixes |-> <<
        <<"z","e","n">>, <<"c","a","l","m">>, <<"p","e","a","c","e">>, <<"h","a","r","m","o","n","y">>,
        <<"b","a","l","a","n","c","e">>, <<"f","l","o","w">>, <<"s","t","r","e","a","m">>,
        <<"c","r","e","e","k">>, <<"r","i","v","e","r">>, <<"l","a","k","e">>, <<"p","o","n","d">>,
        <<"p","o","o","l">>, <<"s","p","r","i","n","g">>, <<"f","a","l","l","s">>,
        <<"c","a","s","c","a","d","e">>, <<"r","a","p","i","d","s">>, <<"w","a","v","e">>,
        <<"t","i","d","e">>, <<"s","h","o","r","e">>, <<"b","e","a","c","h">>, <<"c","o","a","s","t">>,
        <<"b","a","y">>, <<"c","o","v","e">>, <<"i","s","l","a","n","d">>, <<"r","e","e","f">>,
        <<"c","o","r","a","l">>, <<"s","h","e","l","l">>, <<"p","e","a","r","l">>, <<"s","a","n","d">>,
        <<"p","e","b","b","l","e">>, <<"s","t","o","n","e">>, <<"r","o","c","k">>,
        <<"b","o","u","l","d","e","r">>, <<"c","l","i","f","f">>, <<"c","a","v","e">>,
        <<"g","r","o","t","t","o">>, <<"c","a","n","y","o","n">>, <<"v","a","l","l","e","y">>,
        <<"m","e","a","d","o","w">>, <<"f","i","e","l","d">>, <<"p","l","a","i","n">>,
        <<"p","r","a","i","r","i","e">>, <<"s","a","v","a","n","n","a">>, <<"t","u","n","d","r","a">>,
        <<"d","e","s","e","r","t">>, <<"d","u","n","e">>, <<"o","a","s","i","s">>, <<"g","r","o","v","e">>,
        <<"f","o","r","e","s","t">>, <<"w","o","o","d","s">>, <<"j","u","n","g","l","e">>,
        <<"r","a","i","n","f","o","r","e","s","t">>, <<"c","a","n","o","p","y">>,
        <<"u","n","d","e","r","s","t","o","r","y">>, <<"f","l","o","o","r">>, <<"t","r","a","i","l">>,
        <<"p","a","t","h">>, <<"w","a","y">>, <<"r","o","u","t","e">>, <<"p","a","s","s","a","g","e">>,
        <<"b","r","i","d","g","e">>, <<"c","r","o","s","s","i","n","g">>, <<"f","o","r","d">>,
        <<"s","u","m","m","i","t">>, <<"p","e","a","k">>, <<"r","i","d","g","e">>, <<"s","l","o","p","e">>,
        <<"h","i","l","l">>
      >>]
  @@ "urban-legend" :> [
      prefixes |-> <<
        <<"n","e","o","n">>, <<"m","e","t","r","o">>, <<"u","r","b","a","n">>, <<"c","i","t","y">>,
        <<"s","t","r","e","e","t">>, <<"a","v","e","n","u","e">>, <<"b","o","u","l","e","v","a","r","d">>,
        <<"p","l","a","z","a">>, <<"s","q","u","a","r","e">>, <<"d","i","s","t","r","i","c","t">>,
        <<"q","u","a","r","t","e","r">>, <<"b","l","o","c","k">>, <<"c","o","r","n","e","r">>,
        <<"j","u","n","c","t","i","o","n">>, <<"i","n","t","e","r","s","e","c","t","i","o","n">>,
        <<"c","r","o","s","s","i","n","g">>, <<"s","t","a","t","i","o","n">>,
        <<"t","e","r","m","i","n","a","l">>, <<"d","e","p","o","t">>, <<"h","u","b">>,
        <<"c","e","n","t","e","r">>, <<"c","o","r","e">>, <<"d","o","w","n","t","o","w","n">>,
        <<"u","p","t","o","w","n">>, <<"m","i","d","t","o","w","n">>, <<"d","o","w","n","t","o","w","n">>,
        <<"s","u","b","w","a","y">>, <<"u","n","d","e","r","g","r","o","u","n","d">>,
        <<"t","u","n","n","e","l">>, <<"b","r","i","d","g","e">>, <<"o","v","e","r","p","a","s","s">>,
        <<"u","n","d","e","r","p","a","s","s">>, <<"h","i","g","h","w","a","y">>,
        <<"f","r","e","e","w","a","y">>, <<"e","x","p","r","e","s","s","w","a","y">>,
        <<"p","a","r","k","w","a","y">>, <<"b","o","u","l","e","v","a","r","d">>, <<"s","t","r","i","p">>,
        <<"r","o","w">>, <<"a","l","l","e","y">>, <<"l","a","n","e">>, <<"d","r","i","v","e">>,
        <<"r","o","a","d">>, <<"r","o","u","t","e">>, <<"p","a","t","h">>, <<"w","a","y">>,
        <<"w","a","l","k">>, <<"p","r","o","m","e","n","a","d","e">>, <<"p","i","e","r">>,
        <<"d","o","c","k">>, <<"w","h","a","r","f">>, <<"p","o","r","t">>, <<"h","a","r","b","o","r">>,
        <<"m","a","r","i","n","a">>, <<"b","a","y">>, <<"w","a","t","e","r","f","r","o","n","t">>,
        <<"r","i","v","e","r","s","i","d","e">>, <<"l","a","k","e","f","r","o","n","t">>,
        <<"b","e","a","c","h","f","r","o","n","t">>, <<"b","o","a","r","d","w","a","l","k">>,
        <<"e","s","p","l","a","n","a","d","e">>, <<"a","r","c","a","d","e">>, <<"g","a","l","l","e","r","y">>,
        <<"p","a","s","s","a","g","e">>, <<"c","o","r","r","i","d","o","r">>,
        <<"c","o","n","c","o","u","r","s","e">>, <<"a","t","r","i","u","m">>, <<"l","o","b","b","y">>,
        <<"f","o","y","e","r">>
      >>,
      suffixes |-> <<
        <<"s","t","r","e","e","t">>, <<"a","v","e","n","u","e">>, <<"b","o","u","l","e","v","a","r","d">>,
        <<"p","l","a","z","a">>, <<"s","q","u","a","r","e">>, <<"c","i","r","c","l","e">>,
        <<"c","o","u","r","t">>, <<"p","l","a","c","e">>, <<"t","e","r","r","a","c","e">>,
        <<"d","r","i","v","e">>, <<"l","a","n","e">>, <<"r","o","a","d">>, <<"w","a","y">>,
        <<"w","a","l","k">>, <<"p","a","t","h">>, <<"t","r","a","i","l">>, <<"r","o","u","t","e">>,
        <<"a","l","l","e","y">>, <<"r","o","w">>, <<"s","t","r","i","p">>, <<"b","l","o","c","k">>,
        <<"d","i","s","t","r","i","c","t">>, <<"q","u","a","r","t","e","r">>, <<"z","o","n","e">>,
        <<"s","e","c","t","o","r">>, <<"a","r","e","a">>, <<"r","e","g","i","o","n">>,
        <<"p","r","e","c","i","n","c","t">>, <<"w","a","r","d">>, <<"b","o","r","o","u","g","h">>,
        <<"n","e","i","g","h","b","o","r","h","o","o","d">>, <<"c","o","m","m","u","n","i","t","y">>,
        <<"v","i","l","l","a","g","e">>, <<"t","o","w","n">>, <<"c","i","t","y">>, <<"m","e","t","r","o">>,
        <<"u","r","b","a","n">>, <<"d","o","w","n","t","o","w","n">>, <<"u","p","t","o","w","n">>,
        <<"m","i","d","t","o","w","n">>, <<"c","e","n","t","r","a","l">>, <<"n","o","r","t","h">>,
        <<"s","o","u","t","h">>, <<"e","a","s","t">>, <<"w","e","s","t">>, <<"s","t","a","t","i","o","n">>,
        <<"t","e","r","m","i","n","a","l">>, <<"d","e","p","o","t">>, <<"h","u","b">>,
        <<"c","e","n","t","e","r">>, <<"p","o","i","n","t">>, <<"n","o","d","e">>, <<"n","e","x","u","s">>,
        <<"j","u","n","c","t","i","o","n">>, <<"c","r","o","s","s","i","n","g">>,
        <<"i","n","t","e","r","s","e","c","t","i","o","n">>, <<"c","o","r","n","e","r">>, <<"e","d","g","e">>,
        <<"b","o","r","d","e","r">>, <<"b","o","u","n","d","a","r","y">>, <<"l","i","m","i","t">>,
        <<"f","r","o","n","t","i","e","r">>, <<"o","u","t","p","o","s","t">>, <<"e","n","c","l","a","v","e">>,
        <<"h","a","v","e","n">>, <<"r","e","f","u","g","e">>, <<"s","a","n","c","t","u","a","r","y">>,
        <<"s","h","e","l","t","e","r">>, <<"s","a","f","e">>, <<"h","o","u","s","e">>
      >>]
  @@ "cosmic-explorer" :> [
      prefixes |-> <<
        <<"s","t","a","r">>, <<"s","o","l","a","r">>, <<"l","u","n","a","r">>, <<"c","o","s","m","i","c">>,
        <<"a","s","t","r","o">>, <<"c","e","l","e","s","t","i","a","l">>, <<"s","t","e","l","l","a","r">>,
        <<"g","a","l","a","c","t","i","c">>, <<"n","e","b","u","l","a">>, <<"n","o","v","a">>,
        <<"s","u","p","e","r">>, <<"h","y","p","e","r">>, <<"u","l","t","r","a">>, <<"m","e","g","a">>,
        <<"g","i","g","a">>, <<"q","u","a","n","t","u","m">>, <<"i","n","f","i","n","i","t","y">>,
        <<"e","t","e","r","n","a","l">>, <<"i","m","m","o","r","t","a","l">>,
        <<"i","n","f","i","n","i","t","e">>, <<"e","n","d","l","e","s","s">>,
        <<"b","o","u","n","d","l","e","s","s">>, <<"l","i","m","i","t","l","e","s","s">>,
        <<"t","i","m","e","l","e","s","s">>, <<"a","g","e","l","e","s","s">>, <<"a","n","c","i","e","n","t">>,
        <<"p","r","i","m","o","r","d","i","a","l">>, <<"p","r","i","m","a","l">>,
        <<"o","r","i","g","i","n","a","l">>, <<"f","i","r","s","t">>, <<"a","l","p","h","a">>,
        <<"o","m","e","g","a">>, <<"z","e","n","i","t","h">>, <<"a","p","e","x">>, <<"p","e","a","k">>,
        <<"s","u","m","m","i","t">>, <<"p","i","n","n","a","c","l","e">>, <<"a","c","m","e">>,
        <<"c","l","i","m","a","x">>, <<"c","u","l","m","i","n","a","t","i","o","n">>,
        <<"m","e","r","i","d","i","a","n">>, <<"e","q","u","i","n","o","x">>,
        <<"s","o","l","s","t","i","c","e">>, <<"e","c","l","i","p","s","e">>, <<"t","r","a","n","s","i","t">>,
        <<"c","o","n","j","u","n","c","t","i","o","n">>, <<"o","p","p","o","s","i","t","i","o","n">>,
        <<"a","l","i","g","n","m","e","n","t">>, <<"s","y","z","y","g","y">>,
        <<"o","c","c","u","l","t","a","t","i","o","n">>, <<"p","e","r","i","h","e","l","i","o","n">>,
        <<"a","p","h","e","l","i","o","n">>, <<"p","e","r","i","g","e","e">>, <<"a","p","o","g","e","e">>,
        <<"a","s","c","e","n","d","i","n","g">>, <<"d","e","s","c","e","n","d","i","n","g">>,
        <<"r","e","t","r","o","g","r","a","d","e">>, <<"p","r","o","g","r","a","d","e">>,
        <<"d","i","r","e","c","t">>, <<"s","t","a","t","i","o","n","a","r","y">>,
        <<"c","o","n","j","u","n","c","t","i","o","n">>, <<"o","p","p","o","s","i","t","i","o","n">>,
        <<"s","q","u","a","r","e">>, <<"t","r","i","n","e">>, <<"s","e","x","t","i","l","e">>,
        <<"q","u","i","n","c","u","n","x">>, <<"s","e","m","i","s","e","x","t","i","l","e">>,
        <<"s","e","m","i","s","q","u","a","r","e">>
      >>,
      suffixes |-> <<
        <<"s","t","a","r">>, <<"s","u","n">>, <<"m","o","o","n">>, <<"p","l","a","n","e","t">>,
        <<"c","o","m","e","t">>, <<"a","s","t","e","r","o","i","d">>, <<"m","e","t","e","o","r">>,
        <<"m","e","t","e","o","r","i","t","e">>, <<"g","a","l","a","x","y">>, <<"n","e","b","u","l","a">>,
        <<"c","l","u","s","t","e","r">>, <<"c","o","n","s","t","e","l","l","a","t","i","o","n">>,
        <<"o","r","b","i","t">>, <<"t","r","a","j","e","c","t","o","r","y">>, <<"p","a","t","h">>,
        <<"c","o","u","r","s","e">>, <<"r","o","u","t","e">>, <<"w","a","y">>, <<"t","r","a","i","l">>,
        <<"j","o","u","r","n","e","y">>, <<"v","o","y","a","g","e">>,
        <<"e","x","p","e","d","i","t","i","o","n">>, <<"m","i","s","s","i","o","n">>, <<"q","u","e","s","t">>,
        <<"s","e","a","r","c","h">>, <<"e","x","p","l","o","r","a","t","i","o","n">>,
        <<"d","i","s","c","o","v","e","r","y">>, <<"f","i","n","d","i","n","g">>,
        <<"r","e","v","e","l","a","t","i","o","n">>, <<"u","n","v","e","i","l","i","n","g">>,
        <<"d","i","s","c","l","o","s","u","r","e">>, <<"e","x","p","o","s","u","r","e">>,
        <<"m","a","n","i","f","e","s","t","a","t","i","o","n">>, <<"a","p","p","e","a","r","a","n","c","e">>,
        <<"e","m","e","r","g","e","n","c","e">>, <<"a","r","i","s","i","n","g">>, <<"d","a","w","n">>,
        <<"s","u","n","r","i","s","e">>, <<"d","a","y","b","r","e","a","k">>, <<"m","o","r","n","i","n","g">>,
        <<"n","o","o","n">>, <<"a","f","t","e","r","n","o","o","n">>, <<"e","v","e","n","i","n","g">>,
        <<"d","u","s","k">>, <<"t","w","i","l","i","g","h","t">>, <<"s","u","n","s","e","t">>,
        <<"n","i","g","h","t","f","a","l","l">>, <<"n","i","g","h","t">>, <<"m","i","d","n","i","g","h","t">>,
        <<"d","a","r","k","n","e","s","s">>, <<"s","h","a","d","o","w">>, <<"e","c","l","i","p","s","e">>,
        <<"o","c","c","u","l","t","a","t","i","o","n">>, <<"t","r","a","n","s","i","t">>,
        <<"p","a","s","s","a","g","e">>, <<"c","r","o","s","s","i","n","g">>,
        <<"i","n","t","e","r","s","e","c","t","i","o","n">>, <<"j","u","n","c","t","i","o","n">>,
        <<"n","e","x","u","s">>, <<"n","o","d","e">>, <<"p","o","i","n","t">>, <<"s","p","o","t">>,
        <<"p","l","a","c","e">>, <<"l","o","c","a","t","i","o","n">>, <<"p","o","s","i","t","i","o","n">>,
        <<"s","i","t","e">>, <<"s","t","a","t","i","o","n">>, <<"b","a","s","e">>
      >>]
  @@ "mystic-shadow" :> [
      prefixes |-> <<
        <<"m","y","s","t","i","c">>, <<"m","a","g","i","c">>, <<"a","r","c","a","n","e">>,
        <<"o","c","c","u","l","t">>, <<"e","s","o","t","e","r","i","c">>, <<"h","i","d","d","e","n">>,
        <<"s","e","c","r","e","t">>, <<"c","r","y","p","t","i","c">>,
        <<"m","y","s","t","e","r","i","o","u","s">>, <<"e","n","i","g","m","a","t","i","c">>,
        <<"o","b","s","c","u","r","e">>, <<"v","e","i","l","e","d">>, <<"s","h","r","o","u","d","e","d">>,
        <<"c","l","o","a","k","e","d">>, <<"m","a","s","k","e","d">>, <<"c","o","n","c","e","a","l","e","d">>,
        <<"c","o","v","e","r","t">>, <<"f","u","r","t","i","v","e">>, <<"s","t","e","a","l","t","h","y">>,
        <<"s","u","r","r","e","p","t","i","t","i","o","u","s">>,
        <<"c","l","a","n","d","e","s","t","i","n","e">>, <<"u","n","d","e","r","c","o","v","e","r">>,
        <<"u","n","d","e","r","g","r","o","u","n","d">>, <<"s","u","b","t","e","r","r","a","n","e","a","n">>,
        <<"d","e","p","t","h","s">>, <<"a","b","y","s","s">>, <<"v","o","i","d">>, <<"c","h","a","s","m">>,
        <<"g","u","l","f">>, <<"p","i","t">>, <<"c","r","a","t","e","r">>, <<"c","a","v","e","r","n">>,
        <<"c","a","v","e">>, <<"g","r","o","t","t","o">>, <<"h","o","l","l","o","w">>, <<"d","e","n">>,
        <<"l","a","i","r">>, <<"n","e","s","t">>, <<"b","u","r","r","o","w">>, <<"w","a","r","r","e","n">>,
        <<"m","a","z","e">>, <<"l","a","b","y","r","i","n","t","h">>, <<"p","u","z","z","l","e">>,
        <<"r","i","d","d","l","e">>, <<"e","n","i","g","m","a">>, <<"m","y","s","t","e","r","y">>,
        <<"c","o","n","u","n","d","r","u","m">>, <<"p","a","r","a","d","o","x">>,
        <<"a","n","o","m","a","l","y">>, <<"a","b","e","r","r","a","t","i","o","n">>,
        <<"d","e","v","i","a","t","i","o","n">>, <<"d","i","v","e","r","g","e","n","c","e">>,
        <<"d","e","p","a","r","t","u","r","e">>, <<"d","i","g","r","e","s","s","i","o","n">>,
        <<"t","a","n","g","e","n","t">>, <<"o","f","f","s","h","o","o","t">>, <<"b","r","a","n","c","h">>,
        <<"f","o","r","k">>, <<"s","p","l","i","t">>, <<"d","i","v","i","d","e">>, <<"r","i","f","t">>,
        <<"b","r","e","a","c","h">>, <<"g","a","p">>, <<"o","p","e","n","i","n","g">>,
        <<"a","p","e","r","t","u","r","e">>, <<"p","o","r","t","a","l">>, <<"g","a","t","e","w","a","y">>,
        <<"d","o","o","r">>
      >>,
      suffixes |-> <<
        <<"s","h","a","d","o","w">>, <<"s","h","a","d","e">>, <<"p","h","a","n","t","o","m">>,
        <<"g","h","o","s","t">>, <<"s","p","e","c","t","e","r">>, <<"w","r","a","i","t","h">>,
        <<"s","p","i","r","i","t">>, <<"s","o","u","l">>, <<"e","s","s","e","n","c","e">>,
        <<"a","u","r","a">>, <<"p","r","e","s","e","n","c","e">>, <<"b","e","i","n","g">>,
        <<"e","n","t","i","t","y">>, <<"c","r","e","a","t","u","r","e">>, <<"f","o","r","m">>,
        <<"s","h","a","p","e">>, <<"f","i","g","u","r","e">>, <<"s","i","l","h","o","u","e","t","t","e">>,
        <<"o","u","t","l","i","n","e">>, <<"c","o","n","t","o","u","r">>, <<"p","r","o","f","i","l","e">>,
        <<"a","s","p","e","c","t">>, <<"f","a","c","e","t">>, <<"f","e","a","t","u","r","e">>,
        <<"t","r","a","i","t">>, <<"q","u","a","l","i","t","y">>, <<"a","t","t","r","i","b","u","t","e">>,
        <<"p","r","o","p","e","r","t","y">>, <<"c","h","a","r","a","c","t","e","r","i","s","t","i","c">>,
        <<"m","a","r","k">>, <<"s","i","g","n">>, <<"s","y","m","b","o","l">>, <<"t","o","k","e","n">>,
        <<"e","m","b","l","e","m">>, <<"b","a","d","g","e">>, <<"c","r","e","s","t">>, <<"s","e","a","l">>,
        <<"s","i","g","i","l">>, <<"g","l","y","p","h">>, <<"r","u","n","e">>, <<"c","i","p","h","e","r">>,
        <<"c","o","d","e">>, <<"k","e","y">>, <<"l","o","c","k">>, <<"w","a","r","d">>,
        <<"c","h","a","r","m">>, <<"s","p","e","l","l">>, <<"h","e","x">>, <<"c","u","r","s","e">>,
        <<"b","l","e","s","s","i","n","g">>, <<"b","o","o","n">>, <<"g","i","f","t">>,
        <<"p","o","w","e","r">>, <<"f","o","r","c","e">>, <<"e","n","e","r","g","y">>,
        <<"m","a","g","i","c">>, <<"m","a","n","a">>, <<"c","h","i">>, <<"p","r","a","n","a">>,
        <<"v","i","t","a","l","i","t","y">>, <<"l","i","f","e">>, <<"b","r","e","a","t","h">>,
        <<"w","i","n","d">>, <<"a","i","r">>, <<"e","t","h","e","r">>, <<"v","o","i","d">>,
        <<"a","b","y","s","s">>
      >>]

\* the two versions of the cleanup script and their word bundles
CleanupVersions == {"current", "early"}
CleanupBundles(version) ==
  IF version = "current" THEN CLEANUP_WORD_BUNDLES ELSE CLEANUP_WORD_BUNDLES_EARLY

\* array.includes(word)
ListIncludes(array, word) == \E i \in 1..Len(array) : array[i] = word

\* const [prefix, suffix] = localPart.split('.'): the first two parts, the
\* second undefined when there is none
PartOrUndefined(parts, i) == IF i <= Len(parts) THEN parts[i] ELSE <<Undefined>>

\* the loop over Object.values(WORD_BUNDLES): some bundle holds the prefix and
\* the suffix
SomeBundleEach(bundles, prefix, suffix) ==
  /\ \E key \in DOMAIN bundles : ListIncludes(bundles[key].prefixes, prefix)
  /\ \E key \in DOMAIN bundles : ListIncludes(bundles[key].suffixes, suffix)
SomeBundle(bundles, prefix, suffix) ==
  \E key \in DOMAIN bundles :
    /\ ListIncludes(bundles[key].prefixes, prefix)
    /\ ListIncludes(bundles[key].suffixes, suffix)

\* isGeneratedAlias(alias), WORD_BUNDLES being bundles
isGeneratedAlias(alias, bundles) ==
  LET localPart == Split(alias, "@")[1]
      parts == Split(localPart, ".")
  IN  IF ~Includes(localPart, ".") THEN FALSE
      ELSE SomeBundle(bundles, PartOrUndefined(parts, 1), PartOrUndefined(parts, 2))

\* most dot-separated segments in the local part of an address
MaxSegments == 3

\* the words the addresses under test are built from: a prefix and a suffix
\* of one bundle, a suffix of another bundle, and a word of no bundle
TestWords ==
  {<<"a","n","o","n","y","m","o","u","s">>, <<"l","o","c","k">>,
   <<"c","h","a","r","m">>, <<"j","o","h","n">>}

\* the local parts of up to MaxSegments words
LocalParts ==
  UNION {{Join(segments, <<".">>) : segments \in [1..n -> TestWords]} : n \in 1..MaxSegments}

\* the addresses the create command can generate: prefix.suffix of a bundle
GeneratedLocalParts ==
  UNION {{WORD_BUNDLES[key].prefixes[i] \o <<".">> \o WORD_BUNDLES[key].suffixes[j] :
            i \in 1..Len(WORD_BUNDLES[key].prefixes),
            j \in 1..Len(WORD_BUNDLES[key].suffixes)} : key \in BundleKeys}

\* the calls of isGeneratedAlias(alias)
ClassifierCalls ==
  [fn : {"isGeneratedAlias"}, version : CleanupVersions,
   alias : {localPart \o <<"@">> \o emailDomain :
              localPart \in LocalParts \cup GeneratedLocalParts},
   phase : {"call"}, out : {FALSE}]

\* isGeneratedAlias(alias) runs
CallIsGeneratedAlias ==
  /\ pure.fn = "isGeneratedAlias"
  /\ pure.phase = "call"
  /\ pure' = [pure EXCEPT
                !.phase = "returned",
                !.out = isGeneratedAlias(pure.alias, CleanupBundles(pure.version))]
  /\ UNCHANGED <<gen, call, exportVars>>

InitClassifier ==
  /\ gen = [i \in Instances |-> IdleGen]
  /\ call = IdleCall
  /\ files = NoFiles
  /\ before = NoFiles
  /\ run = IdleRun
  /\ clock = 0
  /\ pure \in ClassifierCalls

NextClassifier == CallIsGeneratedAlias

SpecClassifier == InitClassifier /\ [][NextClassifier]_vars

\* ------------------------------------------------------------------------
\* The cleanup command (main of the cleanup script)
\* ------------------------------------------------------------------------
\* most rules in the zone
MaxRules == 3

\* a domain of the zone that is not the target
otherDomain == <<"y", ".", "i", "o">>

\* rule.matchers?.[0]?.value of a rule without a matcher address
NoAddress == <<>>

\* the first matcher address of a rule: none, an address the create command
\* generates on the target domain and on another domain, a hand-made address,
\* and a hand-made address of two words from different bundles
RuleAddresses ==
  {NoAddress,
   <<"a","n","o","n","y","m","o","u","s",".","l","o","c","k","@">> \o emailDomain,
   <<"a","n","o","n","y","m","o","u","s",".","l","o","c","k","@">> \o otherDomain,
   <<"j","o","h","n","@">> \o emailDomain,
   <<"a","n","o","n","y","m","o","u","s",".","c","h","a","r","m","@">> \o emailDomain}

\* the rules the gateway lists for the zone; the id of a rule is its place
ZoneRules ==
  UNION {{[k \in 1..n |-> [id |-> k, email |-> emails[k]]] : emails \in [1..n -> RuleAddresses]}
         : n \in 0..MaxRules}

\* the answers of the gateway to a DELETE: parsed.success or not
CleanupResponses == {"deleted", "rejected"}

\* the filter of main: the rule has a first matcher address, on the target
\* domain, that isGeneratedAlias recognises
SelectedAnyDomain(rule, targetDomain) ==
  rule.email # NoAddress /\ isGeneratedAlias(rule.email, CleanupBundles("current"))
Selected(rule, targetDomain) ==
  /\ rule.email # NoAddress
  /\ PartOrUndefined(Split(rule.email, "@"), 2) = targetDomain
  /\ isGeneratedAlias(rule.email, CleanupBundles("current"))

\* rules.filter(...).map(...)
RECURSIVE generatedAliases(_, _)
generatedAliases(rules, targetDomain) ==
  IF rules = <<>> THEN <<>>
  ELSE (IF Selected(Head(rules), targetDomain) THEN <<Head(rules)>> ELSE <<>>)
       \o generatedAliases(Tail(rules), targetDomain)

\* the cleanup command before it lists the rules of the zone
CleanupCalls ==
  [fn : {"cleanup"}, rules : ZoneRules, targetDomain : {emailDomain}, listed : BOOLEAN,
   pc : {"scan"}, aliases : {<<>>}, i : {0}, requests : {<<>>},
   deleted : {0}, failed : {0}, exitCode : {0}]

\* main: the rules are fetched and filtered; the fetch that fails exits with
\* status 1, no alias found returns
CleanupScan ==
  /\ pure.fn = "cleanup"
  /\ pure.pc = "scan"
  /\ \E aliases \in {generatedAliases(pure.rules, pure.targetDomain)} :
       pure' = IF ~pure.listed THEN [pure EXCEPT !.pc = "exit", !.exitCode = 1]
               ELSE [pure EXCEPT !.aliases = aliases, !.i = 1,
                                 !.pc = IF aliases = <<>> THEN "done" ELSE "delete"]
  /\ UNCHANGED <<gen, call, exportVars>>

\* main, the for loop: the DELETE of alias i is answered; a rejection is
\* caught and counted, and the loop goes on
CleanupDelete(resp) ==
  /\ pure.fn = "cleanup"
  /\ pure.pc = "delete"
  /\ pure' = [pure EXCEPT
                !.requests = Append(@, [id |-> pure.aliases[pure.i].id,
                                        email |-> pure.aliases[pure.i].email,
                                        answer |-> resp]),
                !.deleted = IF resp = "deleted" THEN @ + 1 ELSE @,
                !.failed = IF resp = "deleted" THEN @ ELSE @ + 1,
                !.i = @ + 1,
                !.pc = IF pure.i < Len(pure.aliases) THEN "delete" ELSE "done"]
  /\ UNCHANGED <<gen, call, exportVars>>

InitCleanup ==
  /\ gen = [i \in Instances |-> IdleGen]
  /\ call = IdleCall
  /\ files = NoFiles
  /\ before = NoFiles
  /\ run = IdleRun
  /\ clock = 0
  /\ pure \in CleanupCalls

NextCleanup ==
  \/ CleanupScan
  \/ \E resp \in CleanupResponses : CleanupDelete(resp)

SpecCleanup == InitCleanup /\ [][NextCleanup]_vars

\* ------------------------------------------------------------------------
\* The count prompt of the create command (getAliasCount)
\* ------------------------------------------------------------------------
\* a JavaScript number that is an integer, and NaN
Number(value) == [nan |-> FALSE, value |-> value]
NaN == [nan |-> TRUE, value |-> 0]

\* c is a decimal digit
IsDigit(c) == \E d \in 0..9 : CHARSET.numbers[d + 1] = c

\* the value of a decimal digit
DigitValue(c) == CHOOSE d \in 0..9 : CHARSET.numbers[d + 1] = c

\* the value of the longest prefix of decimal digits, read after acc
RECURSIVE DigitsValue(_, _)
DigitsValue(str, acc) ==
  IF str = <<>> \/ ~IsDigit(Head(str)) THEN acc
  ELSE DigitsValue(Tail(str), 10 * acc + DigitValue(Head(str)))

\* parseInt(str, 10): leading white space and a sign are skipped, the decimal
\* digits that follow are read, anything after them is ignored; NaN when
\* there is no digit
parseInt(str) ==
  LET trimmed == TrimStart(str)
      signed == trimmed # <<>> /\ Head(trimmed) \in {"-", "+"}
      digits == IF signed THEN Tail(trimmed) ELSE trimmed
  IN  IF digits = <<>> \/ ~IsDigit(Head(digits)) THEN NaN
      ELSE IF signed /\ Head(trimmed) = "-" THEN Number(0 - DigitsValue(digits, 0))
      ELSE Number(DigitsValue(digits, 0))

\* parseInt(process.env.ALIAS_COUNT || '100', 10)
defaultCount(env) == parseInt(IF env = <<>> THEN <<"1", "0", "0">> ELSE env)

\* count >= 1 && count <= 500
CountInRange(count) == ~count.nan /\ count.value >= 1 /\ count.value <= 500

\* one pass of the while loop for the answer typed: the count returned, or
\* none when the prompt is shown again
AnswerCount(env, answer) ==
  LET trimmed == Trim(answer)
      count == parseInt(trimmed)
  IN  IF trimmed = <<>> THEN [returns |-> TRUE, count |-> defaultCount(env)]
      ELSE IF CountInRange(count) THEN [returns |-> TRUE, count |-> count]
      ELSE [returns |-> FALSE, count |-> NaN]

\* how many answers the user types at the prompt
MaxAnswers == 2

\* ALIAS_COUNT in the environment: unset, in the range, above it, zero, not
\* a number
EnvCounts ==
  {<<>>, <<"2", "5">>, <<"1", "0", "0", "0">>, <<"0">>, <<"a", "l", "l">>}

\* what the user types at the prompt
Answers ==
  {<<>>, <<" ">>, <<"1">>, <<"5", "0", "0">>, <<"5", "0", "1">>, <<"0">>,
   <<"-", "3">>, <<" ", "7", " ">>, <<"1", "2", "x">>, <<"m", "a", "n", "y">>}

\* the calls of getAliasCount(rl), with the answers the user will type
CountCalls ==
  UNION {[fn : {"getAliasCount"}, env : EnvCounts, answers : [1..n -> Answers],
          asked : {0}, phase : {"prompt"}, out : {NaN}] : n \in 1..MaxAnswers}

\* the user answers the prompt: the loop returns a count or asks again
AnswerPrompt ==
  /\ pure.fn = "getAliasCount"
  /\ pure.phase = "prompt"
  /\ pure.asked < Len(pure.answers)
  /\ \E a \in {AnswerCount(pure.env, pure.answers[pure.asked + 1])} :
       pure' = [pure EXCEPT !.asked = @ + 1,
                            !.phase = IF a.returns THEN "returned" ELSE "prompt",
                            !.out = a.count]
  /\ UNCHANGED <<gen, call, exportVars>>

InitCount ==
  /\ gen = [i \in Instances |-> IdleGen]
  /\ call = IdleCall
  /\ files = NoFiles
  /\ before = NoFiles
  /\ run = IdleRun
  /\ clock = 0
  /\ pure \in CountCalls

NextCount == AnswerPrompt

SpecCount == InitCount /\ [][NextCount]_vars

\* ------------------------------------------------------------------------
\* Claims about name generation (SpecNames)
\* ------------------------------------------------------------------------
SameInputs(i, j) ==
  /\ gen[i].seed = gen[j].seed
  /\ gen[i].bundleKey = gen[j].bundleKey
  /\ gen[i].count = gen[j].count

NoDuplicates(names) ==
  \A a, b \in 1..Len(names) : names[a] = names[b] => a = b

SeqRange(names) == {names[a] : a \in 1..Len(names)}

\* C1: two completed runs of generateAliasNames with the same (seed, bundle,
\* count) hold the same names in the same order, whatever ran before them on
\* the same or on the other instance.
C1_Deterministic ==
  \A i, j \in Instances :
    (gen[i].status = "done" /\ gen[j].status = "done" /\ SameInputs(i, j))
      => gen[i].names = gen[j].names

\* C1 witness: both instances completed a three-name run on the same inputs,
\* one of them as its second run
C1_Witness ==
  /\ gen[1].status = "done" /\ gen[2].status = "done"
  /\ SameInputs(1, 2) /\ gen[1].count = 3
  /\ gen[1].starts = 2 /\ gen[2].starts = 1

\* C2: the names of a batch are pairwise different, and after every successful
\* generateUniqueName call the used-set is the set of the names returned so far.
C2_UniqueBatch ==
  \A i \in Instances :
    gen[i].status \in {"running", "done"} =>
      /\ NoDuplicates(gen[i].names)
      /\ gen[i].usedNames = SeqRange(gen[i].names)

\* C2 witness: a completed batch in which a draw collided with the used-set
\* and was redrawn
C2_Witness ==
  \E i \in Instances :
    gen[i].status = "done" /\ gen[i].collisions > 0 /\ Len(gen[i].names) = 3

\* ------------------------------------------------------------------------
\* Claims about the retrying wrapper (SpecRetry)
\* ------------------------------------------------------------------------
Last(q) == q[Len(q)]

Finished(c) == c.phase \in {"returned", "thrown"}

\* C9 as stated: one wrapped call makes at most 3 gateway requests in total.
C9_AtMostThreeRequests == call.requests <= 3

\* C9 amended: one wrapped call makes at most maxRetries + 1 = 4 gateway
\* requests, the first one and at most 3 retries, each retry after one backoff
\* delay; the call is over once the 4th request is answered, with a failure
\* when that answer is transient too.
C9_BoundedRetry ==
  /\ call.requests <= maxRetries + 1
  /\ call.requests = Len(call.responses)
  /\ Len(call.delays) = call.retryCount
  /\ call.retryCount <= maxRetries
  /\ (call.phase = "fetch" => call.requests = call.retryCount)
  /\ (call.requests = maxRetries + 1 =>
        /\ Finished(call)
        /\ (Last(call.responses) \in TransientResponses => call.phase = "thrown"))

\* C9 witness: a call that failed after four requests, all answered with
\* transient conditions of more than one kind
C9_Witness ==
  /\ call.phase = "thrown" /\ call.requests = 4
  /\ \A k \in 1..4 : call.responses[k] \in TransientResponses
  /\ call.responses[1].kind = "error" /\ call.responses[2].status = 429
  /\ call.responses[4].status = 503

\* the rejections of FatalResponses that an operation can get: the answer to a
\* delete carries no rule id to miss
FatalFor(op) ==
  IF op = "create" THEN FatalResponses
  ELSE {r \in FatalResponses : ~r.success}

\* C10: a call whose first answer is a non-transient rejection makes exactly
\* one request, waits for no backoff delay and fails.
C10_NoRetryOnFatal ==
  (call.requests >= 1 /\ call.responses[1] \in FatalFor(call.op)) =>
    /\ call.requests = 1
    /\ call.delays = <<>>
    /\ call.phase = "thrown"

\* ------------------------------------------------------------------------
\* Claims about the export merger (SpecExport)
\* ------------------------------------------------------------------------
\* no command is in progress
AtRest == run.pc = "idle"

\* the place of the first ':' of a line (past its end when it has none), the
\* address in front of it and the secret behind it
FirstColon(line) ==
  IF Includes(line, ":")
  THEN CHOOSE i \in 1..Len(line) : line[i] = ":" /\ \A j \in 1..(i - 1) : line[j] # ":"
  ELSE Len(line) + 1
LineAddress(line) == SubSeq(line, 1, FirstColon(line) - 1)
LineSecret(line) == SubSeq(line, FirstColon(line) + 1, Len(line))

\* the addresses the flat list holds, and the addresses the structured list
\* records with status success
FlatAddresses(txt) == {LineAddress(line) : line \in SeqRange(TxtLines(txt.content))}
SuccessAddresses(json) ==
  {r.alias : r \in {e \in SeqRange(json.results) : e.status = "success"}}

\* the entries of the structured list recorded with status success
SuccessEntries(json) == SelectSeq(json.results, LAMBDA r : r.status = "success")

\* C3: after create runs that produce the same addresses, the structured list
\* holds exactly one entry per successfully created address
C3_OneEntryPerAddress ==
  AtRest =>
    LET entries == SuccessEntries(files.json)
    IN  \A i, j \in 1..Len(entries) : entries[i].alias = entries[j].alias => i = j

\* C4: every address the flat list holds, and every address the structured
\* list records with status success, when a command starts is still there in
\* every state of the command
C4_UnionPreserved ==
  /\ FlatAddresses(before.txt) \subseteq FlatAddresses(files.txt)
  /\ SuccessAddresses(before.json) \subseteq SuccessAddresses(files.json)

\* C4 witness: a second command, a create run or a secret generation, has
\* rewritten both lists, which held addresses
C4_Witness ==
  /\ AtRest
  /\ FlatAddresses(before.txt) # {}
  /\ SuccessAddresses(before.json) # {}
  /\ files.txt # before.txt
  /\ files.json # before.json
  /\ run.cmd \in {"secure", "generate-passwords"}

\* C5: a structured list that does not parse when a command starts is left
\* as it is by the command
C5_UnparseableLeftAlone ==
  (before.json.exists /\ ~before.json.parses) => files.json = before.json

\* C6: when a command is over the flat list has one line per address, and
\* the line of an address secured by the command is address:secret with the
\* secret the command generated
C6_OneLinePerAddress ==
  (AtRest /\ files.txt.exists) =>
    LET lines == TxtLines(files.txt.content)
    IN  /\ \A i, j \in 1..Len(lines) :
             LineAddress(lines[i]) = LineAddress(lines[j]) => i = j
        /\ \A c \in SeqRange(run.credentials) :
             \E i \in 1..Len(lines) :
               lines[i] = CredentialLine(LineAddress(c.email), c.password)

\* C7: in a create run the line of every address that is not in the batch
\* keeps its secret character for character
C7_FrameOfMerge ==
  (run.cmd = "create" /\ before.txt.exists) =>
    \A line \in SeqRange(TxtLines(before.txt.content)) :
      (\A c \in SeqRange(run.credentials) : c.email # LineAddress(line)) =>
        \E kept \in SeqRange(TxtLines(files.txt.content)) :
          /\ LineAddress(kept) = LineAddress(line)
          /\ LineSecret(kept) = LineSecret(line)

\* s is a prefix of t
IsPrefix(s, t) == Len(s) <= Len(t) /\ SubSeq(t, 1, Len(s)) = s

\* C8: the compact report a command finds is a prefix of the report in every
\* state of the command
C8_ReportAppendOnly ==
  before.toon.exists =>
    /\ files.toon.exists
    /\ IsPrefix(before.toon.content, files.toon.content)

\* ------------------------------------------------------------------------
\* Claims about the creation and deletion loops (SpecLoop)
\* ------------------------------------------------------------------------
\* the creation loop of the run has ended
CreateLoopDone == run.cmd = "create" /\ run.pc = "exportJson"

\* the deletion loop of the run has ended
DeleteLoopDone ==
  run.cmd = "delete" /\ run.exited /\ ~run.dryRun /\ Len(run.deletable) > 0

\* request k of the run is the first one sent for its item
FirstForItem(k) == k = 1 \/ run.requests[k - 1].item # run.requests[k].item

\* the requests sent for item i
RequestsFor(i) == {k \in 1..Len(run.requests) : run.requests[k].item = i}

\* a run of 5 aliases has ended in which the gateway rate-limited the first
\* request for the 3rd alias and answered every other request with success
RateLimitedThird ==
  /\ CreateLoopDone
  /\ Len(run.names) = 5
  /\ \A k \in 1..Len(run.requests) :
       run.requests[k].status =
         IF run.requests[k].item = 3 /\ FirstForItem(k) THEN 429 ELSE 200

\* C11: a create run of 5 aliases whose 3rd alias is rate-limited once, every
\* other request succeeding, ends with 5 successful records and none failed,
\* after 6 create requests of which 2 were for the 3rd alias (one retry)
C11_OneRetry ==
  RateLimitedThird =>
    /\ Len(run.results) = 5
    /\ \A i \in 1..5 : run.results[i].status = "success"
    /\ run.successCount = 5
    /\ run.failureCount = 0
    /\ Len(run.requests) = 6
    /\ Cardinality(RequestsFor(3)) = 2
    /\ \A i \in {1, 2, 4, 5} : Cardinality(RequestsFor(i)) = 1

\* C11, its case: the scenario's run has ended with its retry made
C11_Witness ==
  /\ RateLimitedThird
  /\ \E k \in 1..Len(run.requests) : run.requests[k].item = 3 /\ ~FirstForItem(k)

\* the requests are sent item after item, each for the item's target
InLoopOrder(targets) ==
  /\ \A k \in 1..Len(run.requests) :
       /\ run.requests[k].item \in 1..Len(targets)
       /\ run.requests[k].target = targets[run.requests[k].item]
  /\ \A k \in 2..Len(run.requests) :
       run.requests[k].item \in {run.requests[k - 1].item, run.requests[k - 1].item + 1}

\* C12: a failed item does not abort the batch. The creation loop takes the
\* names in generation order and, whatever the gateway answered, ends with one
\* record per name, the i-th record for the i-th name; the deletion loop takes
\* the deletable records in order and ends with one counted outcome per record
C12_BatchContinues ==
  /\ run.cmd = "create" /\ run.pc \in {"request", "exportJson"} =>
       /\ InLoopOrder([i \in 1..Len(run.names) |->
                         run.names[i] \o <<"@">> \o emailDomain])
       /\ Len(run.results) = run.successCount + run.failureCount
       /\ \A i \in 1..Len(run.results) :
            run.results[i].alias = run.names[i] \o <<"@">> \o emailDomain
  /\ run.cmd = "create" /\ run.pc = "request" =>
       Len(run.results) = run.i - 1 /\ run.i <= Len(run.names)
  /\ CreateLoopDone =>
       /\ Len(run.results) = Len(run.names)
       /\ \A i \in 1..Len(run.names) : RequestsFor(i) # {}
  /\ run.cmd = "delete" /\ (run.pc = "delete" \/ DeleteLoopDone) =>
       InLoopOrder([i \in 1..Len(run.deletable) |-> run.deletable[i].ruleId])
  /\ run.cmd = "delete" /\ run.pc = "delete" =>
       run.successCount + run.failureCount = run.i - 1 /\ run.i <= Len(run.deletable)
  /\ DeleteLoopDone =>
       /\ run.successCount + run.failureCount = Len(run.deletable)
       /\ \A i \in 1..Len(run.deletable) : RequestsFor(i) # {}

\* C12, its case: a creation loop has ended in which an alias failed and the
\* alias after it was created
C12_Witness ==
  /\ CreateLoopDone
  /\ \E i \in 1..(Len(run.results) - 1) :
       run.results[i].status = "failed" /\ run.results[i + 1].status = "success"

\* ------------------------------------------------------------------------
\* Claims about the commands (SpecCommands)
\* ------------------------------------------------------------------------
\* C13: the create and the delete command exit with status 0 only when every
\* item of the batch succeeded, and with status 1 when an item failed or the
\* configuration is invalid
C13_ExitStatus ==
  run.exited /\ run.cmd \in {"create", "delete"} =>
    /\ run.exitCode \in {0, 1}
    /\ run.exitCode = 0 => run.failureCount = 0 /\ run.configured
    /\ run.failureCount > 0 \/ ~run.configured => run.exitCode = 1

\* the rule identifiers of the records a delete run has to delete
RulesToDelete(records) ==
  {records[i].ruleId : i \in {j \in 1..Len(records) :
     records[j].status = "success" /\ records[j].ruleId # Undefined}}

\* C14: a dry run mutates nothing. The create command sends no request and
\* leaves the three export files as it found them, its names generated; the
\* delete command sends no request, its deletable records selected
C14_DryRunFrame ==
  run.dryRun =>
    /\ run.requests = <<>>
    /\ run.pc = "idle"
    /\ run.successCount = 0 /\ run.failureCount = 0
    /\ run.cmd = "create" =>
         /\ files = before
         /\ Len(run.names) \in 1..MaxBatch
         /\ NoDuplicates(run.names)
    /\ run.cmd = "delete" /\ run.input = "argument" =>
         \E list \in ArgumentLists : run.deletable = DeletableAliases(list)

\* C14, its case: a dry run of the create command after a run that wrote the
\* export files
C14_Witness ==
  /\ run.dryRun
  /\ run.cmd = "create"
  /\ Len(run.names) > 0
  /\ files.json.exists /\ files.txt.exists /\ files.toon.exists

\* C20: run on the structured list a completed create run left, the delete
\* command sends a delete request for every record with status success and a
\* rule identifier, and for no other record
C20_DeleteConsumesExport ==
  /\ run.cmd = "delete" /\ run.input = "export"
  /\ run.exited /\ run.configured /\ ~run.dryRun
  /\ files.json.exists /\ files.json.parses
  =>
  {run.requests[k].target : k \in 1..Len(run.requests)} = RulesToDelete(files.json.results)

\* ------------------------------------------------------------------------
\* Claims about the secrets (SpecSecrets)
\* ------------------------------------------------------------------------
\* how often the character c occurs in the string
CountOf(str, c) == Cardinality({i \in 1..Len(str) : str[i] = c})

\* the string holds a character of the class
HasOneOf(str, class) == \E i \in 1..Len(str) : str[i] \in SeqRange(class)

\* generateSecurePassword has returned
PasswordReturned == pure.fn = "generateSecurePassword" /\ pure.phase = "returned"

\* C15: the secret generateSecurePassword(L) returns for L >= 8, in both
\* implementations, has exactly L characters, all of the four classes, at
\* least one lowercase letter, one uppercase letter, one digit and one symbol,
\* and the shuffle keeps the multiset of the characters pushed
C15_SecretPolicy ==
  /\ pure.fn = "generateSecurePassword" /\ pure.phase # "call" =>
       (pure.phase = "returned" <=> pure.length >= 8)
  /\ PasswordReturned =>
       /\ Len(pure.out) = pure.length
       /\ \A i \in 1..Len(pure.out) : pure.out[i] \in SeqRange(ALL_CHARS)
       /\ HasOneOf(pure.out, CHARSET.lowercase)
       /\ HasOneOf(pure.out, CHARSET.uppercase)
       /\ HasOneOf(pure.out, CHARSET.numbers)
       /\ HasOneOf(pure.out, CHARSET.special)
       /\ \A c \in SeqRange(ALL_CHARS) : CountOf(pure.out, c) = CountOf(pure.chars, c)

\* C15, its case: a secret of more than 8 characters was returned whose
\* shuffle moved the characters
C15_Witness ==
  /\ PasswordReturned
  /\ pure.length > 8
  /\ pure.out # pure.chars

\* generateUniquePasswords has returned
BatchReturned == pure.fn = "generateUniquePasswords" /\ pure.phase = "returned"

\* C16: the list generateUniquePasswords returns holds one credential per
\* input address, in input order, and no two credentials carry the same
\* secret
C16_UniqueSecrets ==
  BatchReturned =>
    /\ Len(pure.out) = Len(pure.aliases)
    /\ \A i \in 1..Len(pure.out) : pure.out[i].email = pure.aliases[i]
    /\ \A i, j \in 1..Len(pure.out) :
         i # j => pure.out[i].password # pure.out[j].password

\* C16, its case: a batch was returned for which a drawn secret was already
\* in use and was drawn again
C16_Witness ==
  /\ BatchReturned
  /\ Len(pure.out) >= 2
  /\ \E k \in 2..Len(pure.draws) : k <= Len(pure.out) + 1 /\ pure.draws[k] = pure.draws[k - 1]

\* ------------------------------------------------------------------------
\* Claims about the classifier (SpecClassifier)
\* ------------------------------------------------------------------------
\* isGeneratedAlias has returned
Classified == pure.fn = "isGeneratedAlias" /\ pure.phase = "returned"

\* the dot-separated segments of the local part of the address classified
Segments == Split(Split(pure.alias, "@")[1], ".")

\* the word is in the prefix list, or in the suffix list, of some bundle of
\* the cleanup script
KnownPrefix(word) ==
  \E key \in DOMAIN CleanupBundles(pure.version) :
    word \in SeqRange(CleanupBundles(pure.version)[key].prefixes)
KnownSuffix(word) ==
  \E key \in DOMAIN CleanupBundles(pure.version) :
    word \in SeqRange(CleanupBundles(pure.version)[key].suffixes)

\* one bundle of the cleanup script holds the prefix and the suffix
SameBundle(prefix, suffix) ==
  \E key \in DOMAIN CleanupBundles(pure.version) :
    /\ prefix \in SeqRange(CleanupBundles(pure.version)[key].prefixes)
    /\ suffix \in SeqRange(CleanupBundles(pure.version)[key].suffixes)

\* C17: an address x.y@domain whose x is in the prefix list of some bundle and
\* whose y is in the suffix list of some bundle, not necessarily the same
\* bundle, is classified as generated
C17_AnyBundles ==
  Classified /\ Len(Segments) = 2 /\ KnownPrefix(Segments[1]) /\ KnownSuffix(Segments[2])
    => pure.out

\* C17, amended: an address x.y@domain is classified as generated when one
\* bundle holds x in its prefix list and y in its suffix list, and as not
\* generated when no single bundle holds both
C17_SameBundle ==
  Classified /\ Len(Segments) = 2 =>
    (pure.out <=> SameBundle(Segments[1], Segments[2]))

\* C17, its case: x is a prefix of one bundle and y a suffix of another only,
\* and the address is classified as not generated
C17_Witness ==
  /\ Classified
  /\ Len(Segments) = 2
  /\ KnownPrefix(Segments[1]) /\ KnownSuffix(Segments[2])
  /\ ~SameBundle(Segments[1], Segments[2])
  /\ ~pure.out

\* C18: an address whose local part has no '.', or two or more of them, is
\* classified as not generated
C18_TwoSegmentsOnly ==
  Classified /\ Len(Segments) # 2 => ~pure.out

\* C19: every address prefix.suffix@domain built from the prefixes and
\* suffixes of one bundle of the create command is classified as generated by
\* the cleanup script as it stands
C19_RecognisesGenerated ==
  /\ Classified
  /\ pure.version = "current"
  /\ Len(Segments) = 2
  /\ \E key \in BundleKeys :
       /\ Segments[1] \in SeqRange(WORD_BUNDLES[key].prefixes)
       /\ Segments[2] \in SeqRange(WORD_BUNDLES[key].suffixes)
  => pure.out

\* ------------------------------------------------------------------------
\* Further claims about the export merger (SpecExport)
\* ------------------------------------------------------------------------
\* the addresses the structured list records, none of them with status
\* success
UnsuccessfulAddresses(json) ==
  {r.alias : r \in SeqRange(json.results)} \ SuccessAddresses(json)

\* C21: no address whose record has status failed or pending receives a
\* secret: not in the credentials a command generates, not in the structured
\* list, not in the flat list
C21_SecretsOnlyForSuccess ==
  \A address \in UnsuccessfulAddresses(files.json) :
    /\ \A c \in SeqRange(run.credentials) : c.email # address
    /\ \A r \in SeqRange(files.json.results) :
         r.alias = address => r.password = NoPassword
    /\ \A line \in SeqRange(TxtLines(files.txt.content)) :
         LineAddress(line) = address => LineSecret(line) = <<>>

\* ------------------------------------------------------------------------
\* Claims about the count prompt (SpecCount)
\* ------------------------------------------------------------------------
\* C22: the count getAliasCount returns, which the create run generates and
\* submits, is between 1 and 500 whatever the user types, an empty answer
\* that takes the default from ALIAS_COUNT included
C22_CountInBounds ==
  pure.fn = "getAliasCount" /\ pure.phase = "returned" =>
    ~pure.out.nan /\ pure.out.value \in 1..500

\* ------------------------------------------------------------------------
\* Further claims about name generation (SpecNames)
\* ------------------------------------------------------------------------
\* the token has a letter that is not lowercase, or a character that is not
\* a letter
Lowercase(token) ==
  \A k \in 1..Len(token) : \E l \in 1..Len(CHARSET.lowercase) :
    CHARSET.lowercase[l] = token[k]

\* the prefixes and the suffixes of the bundle
Tokens(bundle) == SeqRange(bundle.prefixes) \cup SeqRange(bundle.suffixes)

\* the bundle keeps the Word Bundle invariant
WellFormedBundle(bundle) ==
  /\ bundle.prefixes # <<>>
  /\ bundle.suffixes # <<>>
  /\ \A token \in Tokens(bundle) :
       token # <<>> /\ Lowercase(token) /\ ~Includes(token, ".") /\ ~Includes(token, "@")

\* the identifier has exactly one '.', and splits at it into a prefix and a
\* suffix of the bundle
SplitsBack(name, bundle) ==
  /\ Len(Split(name, ".")) = 2
  /\ Split(name, ".")[1] \in SeqRange(bundle.prefixes)
  /\ Split(name, ".")[2] \in SeqRange(bundle.suffixes)

\* C23: the bundle a create run generates from has non-empty prefix and
\* suffix sequences whose tokens are lowercase and have neither '.' nor '@',
\* and every identifier generated from it has exactly one '.' and splits back
\* into its prefix and suffix
C23_BundleInvariant ==
  \A i \in Instances :
    gen[i].status # "idle" =>
      /\ WellFormedBundle(WORD_BUNDLES[gen[i].bundleKey])
      /\ \A name \in SeqRange(gen[i].names) :
           SplitsBack(name, WORD_BUNDLES[gen[i].bundleKey])

\* ------------------------------------------------------------------------
\* Claims about the records of a create run (SpecExport)
\* ------------------------------------------------------------------------
\* the record is settled: success with a rule id and no error, or failed with
\* an error and no rule id
RecordSettled(r) ==
  /\ r.status \in {"success", "failed"}
  /\ r.status = "success" <=> r.ruleId # Undefined
  /\ r.status = "failed" <=> r.error # NoError

\* the record of the alias whose create call is under way is pending, with a
\* null rule id
PendingBeforeCall ==
  run.cmd = "create" /\ run.pc = "request" =>
    /\ run.result.status = "pending"
    /\ run.result.ruleId = Undefined
    /\ run.result.error = NoError

\* the records the run has pushed and the records of the structured list
\* are settled
SettledAfterCall ==
  /\ run.cmd = "create" => \A r \in SeqRange(run.results) : RecordSettled(r)
  /\ \A r \in SeqRange(files.json.results) : RecordSettled(r)

\* a step of a run pushes at most the record under construction, settled,
\* and leaves the status and the rule id of the records pushed before as they are
StatusChangesOnce ==
  run.cmd = "create" /\ clock' = clock =>
    /\ Len(run'.results) \in {Len(run.results), Len(run.results) + 1}
    /\ \A k \in 1..Len(run.results) :
         /\ run'.results[k].status = run.results[k].status
         /\ run'.results[k].ruleId = run.results[k].ruleId
    /\ Len(run'.results) = Len(run.results) + 1 =>
         /\ run.result.status = "pending"
         /\ run'.results[Len(run'.results)].alias = run.result.alias
         /\ run'.results[Len(run'.results)].status # "pending"

\* C24: a record is pending with a null rule id before its create call; a
\* record pushed or exported is success or failed, never pending; success
\* exactly when the rule id is non-null, failed exactly when the error is
\* set; the status is set once and not changed again
C24_RecordLifecycle ==
  /\ [](PendingBeforeCall /\ SettledAfterCall)
  /\ [][StatusChangesOnce]_vars

\* C24 witness: the structured list holds a created and a rejected record
\* while the record of a later run is pending
C24_Witness ==
  /\ run.cmd = "create" /\ run.pc = "request" /\ run.result.status = "pending"
  /\ \E r \in SeqRange(files.json.results) : r.status = "success"
  /\ \E r \in SeqRange(files.json.results) : r.status = "failed"

\* ------------------------------------------------------------------------
\* Further claims about the retrying wrapper (SpecRetry)
\* ------------------------------------------------------------------------
\* the call threw on a transient answer after its last retry
ExhaustedCall ==
  /\ call.phase = "thrown"
  /\ call.retryCount >= maxRetries
  /\ Last(call.responses) \in TransientResponses

\* C25: when a create or a delete call fails because its retries are
\* exhausted, the error it throws carries the error message of the last
\* answer of the gateway (the message every throw puts last)
C25_LastErrorCarried ==
  ExhaustedCall /\ Last(call.responses).message # Undefined =>
    Last(call.error) = Last(call.responses).message

\* ------------------------------------------------------------------------
\* Claims about the redraws of a batch of secrets (SpecRedraws)
\* ------------------------------------------------------------------------
\* the call that has run drew the secret of the first address `collisions`
\* times for the second
RedrawsRun ==
  pure.fn = "generateUniquePasswords" /\ pure.phase # "call" /\ "collisions" \in DOMAIN pure

\* the draw that follows the collisions is not that of the first address
NextUnused == pure.draws[Len(pure.draws)] # pure.draws[1]

\* C26: generateUniquePasswords redraws a secret already used in the batch
\* at most 100 times and fails when that bound is exceeded; it returns or
\* fails under any sequence of draws, and does not fail while a drawn secret
\* is unused
C26_BoundedRedraws ==
  RedrawsRun =>
    /\ pure.collisions > maxPasswordAttempts => pure.phase = "thrown"
    /\ pure.collisions < maxPasswordAttempts /\ NextUnused => pure.phase = "returned"

\* ------------------------------------------------------------------------
\* Claims about the capacity of a bundle (SpecCapacity)
\* ------------------------------------------------------------------------
\* the 1000 consecutive draws generateUniqueName makes from the state of the
\* loop are all in the used-set
AllCollide ==
  \A a \in 0..999 :
    DrawnName(pure.rng, WORD_BUNDLES[pure.bundleKey], a).name \in pure.usedNames

\* a generateUniqueName call of the loop: it returns a name that was not in
\* the used-set and adds it, or it fails, after 1000 draws that all collide
\* and only then, and leaves the used-set as it was
UniqueNameStep ==
  pure.fn = "generateAliasNames" /\ pure.phase = "call" /\ pure' # pure =>
    /\ pure'.phase = "thrown" <=> AllCollide
    /\ pure'.phase = "thrown" => pure'.usedNames = pure.usedNames /\ pure'.names = pure.names
    /\ pure'.phase # "thrown" =>
         /\ Len(pure'.names) = Len(pure.names) + 1
         /\ pure'.names[Len(pure'.names)] \notin pure.usedNames
         /\ pure'.usedNames = pure.usedNames \cup {pure'.names[Len(pure'.names)]}

\* the run whose name generation failed has exited with status 1, has sent
\* no request and has written no file
AbortedBeforeRequests ==
  pure.fn = "generateAliasNames" /\ pure.phase = "thrown" =>
    /\ run.exited /\ run.exitCode = 1
    /\ run.requests = <<>> /\ run.results = <<>>
    /\ files = before

\* C27: generateUniqueName returns a name only if it was not in the used-set
\* before the call; when 1000 consecutive draws all collide it fails and
\* leaves the used-set unchanged, and the failure aborts the create run
\* before any gateway request
C27_CapacityExhaustion ==
  /\ [][UniqueNameStep]_vars
  /\ []AbortedBeforeRequests

\* C27 witness: the 3132nd name of the privacy bundle was asked for with
\* seed 42, 1000 draws collided and the run has exited
C27_Witness ==
  /\ pure.fn = "generateAliasNames" /\ pure.phase = "thrown"
  /\ pure.generated + Len(pure.names) < pure.count
  /\ Cardinality(pure.usedNames) >= 1000
  /\ run.exited

\* ------------------------------------------------------------------------
\* Claims about the order of the network phase and the export (SpecExport)
\* ------------------------------------------------------------------------
\* the create run is in its network phase: a create call is under way
NetworkPhase == run.cmd = "create" /\ run.pc = "request"

\* a step of a create run that writes a file is taken after the create call
\* of the last alias returned: a result is pushed for every name
WritesAfterLastCall ==
  run.cmd = "create" /\ files' # files =>
    ~NetworkPhase /\ Len(run.results) = Len(run.names)

\* C28: a create run writes none of the three export files before the create
\* call of its last alias, retries included, has returned; a run stopped in
\* its network phase leaves the three files as they were before the run
C28_ExportAfterNetwork ==
  /\ [](NetworkPhase => files = before)
  /\ [][WritesAfterLastCall]_vars

\* C28 witness: a run is in its network phase after its first alias, and the
\* three files of an earlier run are there
C28_Witness ==
  /\ NetworkPhase
  /\ Len(run.results) >= 1
  /\ Len(run.results) < Len(run.names)
  /\ files.json.exists /\ files.txt.exists /\ files.toon.exists

\* ------------------------------------------------------------------------
\* Claims about the metadata of the structured list (SpecExport)
\* ------------------------------------------------------------------------
\* the structured list on disk has the object shape
ObjectShape == files.json.exists /\ files.json.parses /\ ~files.json.isArray

\* C29: whenever the structured list is written in the object shape, by any
\* sequence of create runs and credential updates, its metadata has a count
\* and the count is the number of entries of its results array
C29_MetadataCount ==
  ObjectShape =>
    /\ "count" \in files.json.metadata.keys
    /\ files.json.metadata.count = Len(files.json.results)

\* ------------------------------------------------------------------------
\* Claims about the cleanup command (SpecCleanup)
\* ------------------------------------------------------------------------
\* the rule's first matcher address is on the target domain and the
\* classifier of the cleanup script recognises it
RuleIsSelected(rule) ==
  /\ rule.email # NoAddress
  /\ Len(Split(rule.email, "@")) >= 2
  /\ Split(rule.email, "@")[2] = pure.targetDomain
  /\ isGeneratedAlias(rule.email, CLEANUP_WORD_BUNDLES)

\* the delete requests sent for the rule
DeletesOf(rule) == {k \in 1..Len(pure.requests) : pure.requests[k].id = rule.id}

\* C30: the cleanup command sends a delete request for a rule only if the
\* rule's first matcher address has the target domain and is classified as
\* generated; every other rule gets none, a selected rule at most one, and
\* once the loop has ended every selected rule got its request, whether
\* earlier deletes failed or not
C30_DeletesOnlySelected ==
  pure.fn = "cleanup" =>
    /\ \A q \in SeqRange(pure.requests) :
         \E rule \in SeqRange(pure.rules) : rule.id = q.id /\ rule.email = q.email
    /\ \A rule \in SeqRange(pure.rules) :
         /\ ~RuleIsSelected(rule) => DeletesOf(rule) = {}
         /\ Cardinality(DeletesOf(rule)) <= 1
         /\ pure.pc = "done" /\ RuleIsSelected(rule) => Cardinality(DeletesOf(rule)) = 1

\* C30 witness: the loop has ended; a delete failed and a later one was
\* sent; the zone holds a rule with an address that is not selected, and it
\* got no request
C30_Witness ==
  /\ pure.fn = "cleanup" /\ pure.pc = "done"
  /\ \E k \in 1..Len(pure.requests) :
       pure.requests[k].answer = "rejected" /\ k < Len(pure.requests)
  /\ \E rule \in SeqRange(pure.rules) :
       rule.email # NoAddress /\ ~RuleIsSelected(rule) /\ DeletesOf(rule) = {}

====
